---- MODULE Spec2Model ----
(***************************************************************************)
(* Model of the image pipeline of dimitrileduc/vinted:                     *)
(*   - calculateSSIM and validateEdit   (src/src/agents/agent3-qa.ts)      *)
(*   - generateMask                     (src/unnamed/part_000)             *)
(*   - inpaintBackground                (src/src/agents/agent2-inpaint.ts) *)
(*   - processImage and processBatch    (src/src/pipeline.ts)              *)
(*                                                                         *)
(* Conventions.                                                            *)
(*  * A Buffer is a record [dec, px]: dec says whether sharp can decode    *)
(*    it, px is its grayscale raster (one row, intensities 0..255).        *)
(*  * JavaScript numbers that the code rounds are kept as scaled integers: *)
(*    ssim_score in thousandths (Math.round(ssim * 1000) / 1000),          *)
(*    pixel_delta_percent and ssimPercent in hundredths, each wrapped in   *)
(*    a record that can also be NaN.  Unrounded quotients are kept as      *)
(*    exact fractions, so the rounding error of IEEE doubles is not part   *)
(*    of the model.                                                        *)
(*  * Template strings are tuples of their parts.                          *)
(*  * Date.now() reads the clock field/variable, which advances by one at  *)
(*    every awaited operation.                                             *)
(***************************************************************************)
EXTENDS Integers, Sequences, FiniteSets, TLC

\* Longest raster (in pixels) of a buffer handed to the validator.
MaxPix == 2

----------------------------------------------------------------------------
(* Arbitrary-size naturals: little-endian sequences of limbs, because the  *)
(* products in the SSIM quotient exceed 32 bits.                           *)

Base == 100 * 100

RECURSIVE BigCarry(_, _)
BigCarry(s, c) ==
  IF s = <<>>
    THEN IF c = 0 THEN <<>> ELSE <<c % Base>> \o BigCarry(<<>>, c \div Base)
    ELSE LET v == Head(s) + c
         IN  <<v % Base>> \o BigCarry(Tail(s), v \div Base)

RECURSIVE BigTrim(_)
BigTrim(s) ==
  IF s = <<>> THEN <<>>
  ELSE IF s[Len(s)] = 0 THEN BigTrim(SubSeq(s, 1, Len(s) - 1)) ELSE s

ToBig(n) == BigTrim(BigCarry(<<n>>, 0))

Limb(a, i) == IF i >= 1 /\ i <= Len(a) THEN a[i] ELSE 0

RECURSIVE ConvSum(_, _, _, _)
ConvSum(a, b, k, i) ==
  IF i > Len(a) THEN 0 ELSE a[i] * Limb(b, k - i + 1) + ConvSum(a, b, k, i + 1)

BigMul(a, b) ==
  IF a = <<>> \/ b = <<>> THEN <<>>
  ELSE BigTrim(BigCarry([k \in 1..(Len(a) + Len(b) - 1) |-> ConvSum(a, b, k, 1)], 0))

BigAdd(a, b) ==
  LET n == IF Len(a) > Len(b) THEN Len(a) ELSE Len(b)
  IN  BigTrim(BigCarry([k \in 1..n |-> Limb(a, k) + Limb(b, k)], 0))

RECURSIVE BigLeqFrom(_, _, _)
BigLeqFrom(a, b, i) ==
  IF i = 0 THEN TRUE
  ELSE IF a[i] # b[i] THEN a[i] < b[i]
  ELSE BigLeqFrom(a, b, i - 1)

BigLeq(a, b) ==
  IF Len(a) # Len(b) THEN Len(a) < Len(b) ELSE BigLeqFrom(a, b, Len(a))

\* The largest k in lo..hi with k * d <= n   (lo * d <= n is given).
RECURSIVE MaxK(_, _, _, _)
MaxK(lo, hi, n, d) ==
  IF lo >= hi THEN lo
  ELSE LET mid == (lo + hi + 1) \div 2
       IN  IF BigLeq(BigMul(ToBig(mid), d), n)
             THEN MaxK(mid, hi, n, d) ELSE MaxK(lo, mid - 1, n, d)

\* The smallest k in lo..hi with n <= k * d + e   (it holds of hi).
RECURSIVE MinK(_, _, _, _, _)
MinK(lo, hi, n, d, e) ==
  IF lo >= hi THEN lo
  ELSE LET mid == (lo + hi) \div 2
       IN  IF BigLeq(n, BigAdd(BigMul(ToBig(mid), d), e))
             THEN MinK(lo, mid, n, d, e) ELSE MinK(mid + 1, hi, n, d, e)

----------------------------------------------------------------------------
(* calculateSSIM                                                           *)

RECURSIVE SumSeq(_)
SumSeq(s) == IF s = <<>> THEN 0 ELSE Head(s) + SumSeq(Tail(s))

Abs(x) == IF x < 0 THEN -x ELSE x

\* A JavaScript number produced by a division: NaN, or the exact fraction
\* (neg ? -1 : 1) * p / q with p, q big naturals and q > 0.
Fraction(neg, p, q) == [nan |-> FALSE, neg |-> neg /\ p # <<>>, p |-> p, q |-> q]

NaNValue == [nan |-> TRUE, neg |-> FALSE, p |-> <<>>, q |-> <<>>]

\* calculateSSIM with c1 in place of c2 in the second factor of the numerator.
calculateSSIMOneConstant(img1, img2) ==
  LET L     == 255
      c1    == (L * L) \div 25
      c2    == (9 * L * L) \div 25
      n     == Len(img1)
      sumX  == SumSeq(img1)
      sumY  == SumSeq(img2)
      sumX2 == SumSeq([i \in 1..n |-> img1[i] * img1[i]])
      sumY2 == SumSeq([i \in 1..n |-> img2[i] * img2[i]])
      sumXY == SumSeq([i \in 1..n |-> img1[i] * img2[i]])
      f1    == 800 * sumX * sumY + c1 * n * n
      f2    == 800 * (n * sumXY - sumX * sumY) + c1 * n * n
      g1    == 400 * (sumX * sumX + sumY * sumY) + c1 * n * n
      g2    == 400 * ((n * sumX2 - sumX * sumX) + (n * sumY2 - sumY * sumY)) + c2 * n * n
  IN  IF n = 0 THEN NaNValue
      ELSE Fraction(f2 < 0, BigMul(ToBig(f1), ToBig(Abs(f2))),
                            BigMul(ToBig(g1), ToBig(g2)))

\* calculateSSIM(img1, img2): the loop's five sums, then
\* numerator / denominator.  With c1 = (0.01 * 255)^2 = 2601/400 and
\* c2 = (0.03 * 255)^2 = 23409/400, both factors of the numerator and of the
\* denominator are multiplied by 400 * n^2 to stay in the integers.
\* n = 0 makes every mean 0/0, so the result is NaN.
calculateSSIM(img1, img2) ==
  LET L     == 255
      c1    == (L * L) \div 25
      c2    == (9 * L * L) \div 25
      n     == Len(img1)
      sumX  == SumSeq(img1)
      sumY  == SumSeq(img2)
      sumX2 == SumSeq([i \in 1..n |-> img1[i] * img1[i]])
      sumY2 == SumSeq([i \in 1..n |-> img2[i] * img2[i]])
      sumXY == SumSeq([i \in 1..n |-> img1[i] * img2[i]])
      f1    == 800 * sumX * sumY + c1 * n * n
      f2    == 800 * (n * sumXY - sumX * sumY) + c2 * n * n
      g1    == 400 * (sumX * sumX + sumY * sumY) + c1 * n * n
      g2    == 400 * ((n * sumX2 - sumX * sumX) + (n * sumY2 - sumY * sumY)) + c2 * n * n
  IN  IF n = 0 THEN NaNValue
      ELSE Fraction(f2 < 0, BigMul(ToBig(f1), ToBig(Abs(f2))),
                            BigMul(ToBig(g1), ToBig(g2)))

\* A rounded JavaScript number: NaN, or the integer v in the unit of the field.
Num(v) == [nan |-> FALSE, v |-> v]

NaNNum == [nan |-> TRUE, v |-> 0]

\* Math.round(x * k) for |x| <= 1: floor(x * k + 1/2), NaN for NaN.
RoundTimes(x, k) ==
  IF x.nan THEN NaNNum
  ELSE LET n2 == BigMul(ToBig(2 * k), x.p)
           d2 == BigMul(ToBig(2), x.q)
       IN  IF x.neg THEN Num(0 - MinK(0, k, n2, d2, x.q))
           ELSE Num(MaxK(0, k + 1, BigAdd(n2, x.q), d2))

\* GreaterEq with > in place of >=.
GreaterThan(x, num, den) ==
  /\ ~x.nan
  /\ ~x.neg
  /\ BigLeq(BigMul(ToBig(num), x.q), BigMul(ToBig(den), x.p))
  /\ BigMul(ToBig(num), x.q) # BigMul(ToBig(den), x.p)

\* x >= num / den in JavaScript: false for NaN.
GreaterEq(x, num, den) ==
  /\ ~x.nan
  /\ ~x.neg
  /\ BigLeq(BigMul(ToBig(num), x.q), BigMul(ToBig(den), x.p))

----------------------------------------------------------------------------
(* Buffers, digests and sharp                                              *)

Image(px) == [dec |-> TRUE, px |-> px]

\* A buffer sharp cannot decode (Buffer.alloc(0), or bytes that are no image).
Undecodable == [dec |-> FALSE, px |-> <<>>]

\* `sha256:${createHash('sha256').update(buffer).digest('hex')}`: the digest
\* is determined by the buffer and distinct buffers have distinct digests.
sha256(buffer) == <<"sha256:", buffer>>

\* image.resize(width, height).grayscale().raw().toBuffer() on a one-row
\* raster: n output pixels, each taken from the input pixel it falls on.
Resize(px, n) == [i \in 1..n |-> px[(((i - 1) * Len(px)) \div n) + 1]]

UnsupportedFormat == "Input buffer contains unsupported image format"

----------------------------------------------------------------------------
(* validateEdit, one operator per group of statements between two points   *)
(* where it can leave the straight path.  A run is a record holding the    *)
(* arguments, the locals and the position pc.                              *)

SSIM_THRESHOLD == <<92, 100>>

\* Lines 50-69: the arguments are bound, startTime, timestampStart and
\* auditTrail are set, the sizes are logged.
QEntry(originalBuffer, editedBuffer, maskBuffer, imageId, agentTimings, clock) ==
  [ pc               |-> "hashes",
    originalBuffer   |-> originalBuffer,
    editedBuffer     |-> editedBuffer,
    maskBuffer       |-> maskBuffer,
    imageId          |-> imageId,
    agentTimings     |-> agentTimings,
    clock            |-> clock,
    startTime        |-> clock,
    timestampStart   |-> clock,
    auditTrail       |-> <<>>,
    originalHash     |-> <<>>,
    editedHash       |-> <<>>,
    maskHash         |-> <<>>,
    width            |-> 0,
    origGray         |-> <<>>,
    editGray         |-> <<>>,
    maskRaw          |-> <<>>,
    subjectOriginal  |-> <<>>,
    subjectEdited    |-> <<>>,
    ssim             |-> NaNValue,
    ssimPercent      |-> NaNNum,
    pixelDelta       |-> NaNValue,
    qaStatus         |-> "",
    subjectIntegrity |-> "",
    thrown           |-> "",
    result           |-> <<>> ]

\* QThrow for statements that sit before the try block: the throw leaves
\* validateEdit.
QThrowOutsideTry(r, message) == [r EXCEPT !.pc = "escaped", !.thrown = message]

\* throw inside the try block: control goes to the catch clause.
QThrow(r, message) == [r EXCEPT !.pc = "catch", !.thrown = message]

\* Lines 72-78.
QHashes(r) ==
  [r EXCEPT !.originalHash = sha256(r.originalBuffer),
            !.editedHash   = sha256(r.editedBuffer),
            !.maskHash     = sha256(r.maskBuffer),
            !.auditTrail   = Append(@, <<"Hashes generated for all images">>),
            !.pc           = "metadata"]

\* Lines 80-90: await originalImage.metadata().
QMetadata(r) ==
  IF ~r.originalBuffer.dec
    THEN QThrow([r EXCEPT !.clock = @ + 1], UnsupportedFormat)
    ELSE [r EXCEPT !.clock = @ + 1,
                   !.width = Len(r.originalBuffer.px),
                   !.pc    = "extract"]

\* QExtract with its line put at the head of the trail (unshift for push).
QExtractPrepends(r) ==
  IF ~r.editedBuffer.dec \/ ~r.maskBuffer.dec
    THEN QThrow([r EXCEPT !.clock = @ + 1], UnsupportedFormat)
    ELSE [r EXCEPT !.clock      = @ + 1,
                   !.origGray   = Resize(r.originalBuffer.px, r.width),
                   !.editGray   = Resize(r.editedBuffer.px, r.width),
                   !.maskRaw    = Resize(r.maskBuffer.px, r.width),
                   !.auditTrail = <<(<<"Pixel data extracted for SSIM analysis">>)>> \o @,
                   !.pc         = "subject"]

\* Lines 92-100: the three raw grayscale rasters at the original's size.
QExtract(r) ==
  IF ~r.editedBuffer.dec \/ ~r.maskBuffer.dec
    THEN QThrow([r EXCEPT !.clock = @ + 1], UnsupportedFormat)
    ELSE [r EXCEPT !.clock      = @ + 1,
                   !.origGray   = Resize(r.originalBuffer.px, r.width),
                   !.editGray   = Resize(r.editedBuffer.px, r.width),
                   !.maskRaw    = Resize(r.maskBuffer.px, r.width),
                   !.auditTrail = Append(@, <<"Pixel data extracted for SSIM analysis">>),
                   !.pc         = "subject"]

\* SubjectPixels with <= in place of <: a mask pixel of 128 counts as subject.
RECURSIVE SubjectPixelsInclusive(_, _, _)
SubjectPixelsInclusive(gray, maskRaw, n) ==
  IF n = 0 THEN <<>>
  ELSE IF maskRaw[n] <= 128
         THEN Append(SubjectPixelsInclusive(gray, maskRaw, n - 1), gray[n])
         ELSE SubjectPixelsInclusive(gray, maskRaw, n - 1)

\* The loop of lines 106-111 up to index n.
RECURSIVE SubjectPixels(_, _, _)
SubjectPixels(gray, maskRaw, n) ==
  IF n = 0 THEN <<>>
  ELSE IF maskRaw[n] < 128
         THEN Append(SubjectPixels(gray, maskRaw, n - 1), gray[n])
         ELSE SubjectPixels(gray, maskRaw, n - 1)

\* QSubject with subjectOriginal and subjectEdited declared at module level
\* and never cleared: a call that is not the first one (startTime > 0) finds
\* in them what an earlier call left, here one pixel pair.
QSubjectShared(r) ==
  LET earlier         == r.startTime > 0
      subjectOriginal == (IF earlier THEN <<255>> ELSE <<>>)
                           \o SubjectPixels(r.origGray, r.maskRaw, Len(r.origGray))
      subjectEdited   == (IF earlier THEN <<0>> ELSE <<>>)
                           \o SubjectPixels(r.editGray, r.maskRaw, Len(r.origGray))
  IN  [r EXCEPT !.subjectOriginal = subjectOriginal,
                !.subjectEdited   = subjectEdited,
                !.auditTrail      = Append(@, <<"Subject area: ", Len(subjectOriginal),
                                                " pixels extracted">>),
                !.pc              = "ssim"]

\* Lines 102-114.
QSubject(r) ==
  LET subjectOriginal == SubjectPixels(r.origGray, r.maskRaw, Len(r.origGray))
      subjectEdited   == SubjectPixels(r.editGray, r.maskRaw, Len(r.origGray))
  IN  [r EXCEPT !.subjectOriginal = subjectOriginal,
                !.subjectEdited   = subjectEdited,
                !.auditTrail      = Append(@, <<"Subject area: ", Len(subjectOriginal),
                                                " pixels extracted">>),
                !.pc              = "ssim"]

\* Lines 116-127.  ssimPercent is kept in hundredths of a percent.
QSsim(r) ==
  LET ssim        == calculateSSIM(r.subjectOriginal, r.subjectEdited)
      ssimPercent == (RoundTimes(ssim, 10000))
  IN  [r EXCEPT !.ssim        = ssim,
                !.ssimPercent = ssimPercent,
                !.auditTrail  = Append(@, <<"SSIM (subject area): ", ssimPercent, "%">>),
                !.pc          = "delta"]

\* The loop of lines 131-135.
ChangedPixels(subjectOriginal, subjectEdited) ==
  Cardinality({i \in 1..Len(subjectOriginal) :
                 Abs(subjectOriginal[i] - subjectEdited[i]) > 10})

\* Lines 129-137: pixelDelta = changedPixels / length * 100 (0/0 is NaN);
\* the trail gets pixelDelta.toFixed(2), kept in hundredths of a percent.
QDelta(r) ==
  LET n             == Len(r.subjectOriginal)
      changedPixels == ChangedPixels(r.subjectOriginal, r.subjectEdited)
      pixelDelta    == IF n = 0 THEN NaNValue
                       ELSE Fraction(FALSE, ToBig(changedPixels), ToBig(n))
  IN  [r EXCEPT !.pixelDelta = pixelDelta,
                !.auditTrail = Append(@, <<"Pixel delta (reference): ",
                                           (RoundTimes(pixelDelta, 10000)), "%">>),
                !.pc         = "verdict"]

\* QVerdict with subject_integrity left at 'preserved' on a failing score.
QVerdictPreserved(r) ==
  LET pass     == GreaterEq(r.ssim, SSIM_THRESHOLD[1], SSIM_THRESHOLD[2])
      qaStatus == IF pass THEN "pass" ELSE "fail"
  IN  [r EXCEPT !.qaStatus         = qaStatus,
                !.subjectIntegrity = "preserved",
                !.auditTrail       =
                   Append(@, IF qaStatus = "pass"
                               THEN <<"QA PASS: SSIM ", r.ssimPercent, "% >= ", 92, "%">>
                               ELSE <<"QA FAIL: SSIM ", r.ssimPercent, "% < ", 92, "%">>),
                !.pc               = "assemble"]

\* QVerdict with the pixel delta gating the verdict as well (at most 3 % of
\* the subject pixels changed, the qa_threshold of DEFAULT_AGENT_CONFIG).
QVerdictGated(r) ==
  LET pass     == /\ GreaterEq(r.ssim, SSIM_THRESHOLD[1], SSIM_THRESHOLD[2])
                  /\ ~r.pixelDelta.nan
                  /\ BigLeq(BigMul(ToBig(100), r.pixelDelta.p),
                            BigMul(ToBig(3), r.pixelDelta.q))
      qaStatus == IF pass THEN "pass" ELSE "fail"
  IN  [r EXCEPT !.qaStatus         = qaStatus,
                !.subjectIntegrity = IF pass THEN "preserved" ELSE "modified",
                !.auditTrail       =
                   Append(@, IF qaStatus = "pass"
                               THEN <<"QA PASS: SSIM ", r.ssimPercent, "% >= ", 92, "%">>
                               ELSE <<"QA FAIL: SSIM ", r.ssimPercent, "% < ", 92, "%">>),
                !.pc               = "assemble"]

\* Lines 139-149.
QVerdict(r) ==
  LET pass     == GreaterEq(r.ssim, SSIM_THRESHOLD[1], SSIM_THRESHOLD[2])
      qaStatus == IF pass THEN "pass" ELSE "fail"
  IN  [r EXCEPT !.qaStatus         = qaStatus,
                !.subjectIntegrity = IF pass THEN "preserved" ELSE "modified",
                !.auditTrail       =
                   Append(@, IF qaStatus = "pass"
                               THEN <<"QA PASS: SSIM ", r.ssimPercent, "% >= ", 92, "%">>
                               ELSE <<"QA FAIL: SSIM ", r.ssimPercent, "% < ", 92, "%">>),
                !.pc               = "assemble"]

\* Lines 151-191: the forensic log and the value returned on the straight path.
QAssemble(r) ==
  LET qaTime      == r.clock - r.startTime
      forensicLog ==
        [ image_id           |-> r.imageId,
          timestamp_start    |-> r.timestampStart,
          timestamp_end      |-> r.clock,
          processing_time_ms |-> r.agentTimings.agent1_time_ms
                                   + r.agentTimings.agent2_time_ms + qaTime,
          original_hash      |-> r.originalHash,
          edited_hash        |-> r.editedHash,
          mask_hash          |-> r.maskHash,
          agents_executed    |-> <<"removebg", "inpaint", "qa">>,
          agent1_output      |-> [ mask_generation_time_ms |-> r.agentTimings.agent1_time_ms,
                                   success                 |-> TRUE ],
          agent2_output      |-> [ inpaint_time_ms |-> r.agentTimings.agent2_time_ms,
                                   model           |-> "imagen-3.0-capability-001",
                                   smart_prompt    |-> r.agentTimings.smart_prompt,
                                   success         |-> TRUE ],
          qa_output          |-> [ pixel_delta_percent |-> (RoundTimes(r.pixelDelta, 10000)),
                                   ssim_score          |-> (RoundTimes(r.ssim, 1000)),
                                   qa_status           |-> r.qaStatus,
                                   subject_integrity   |-> r.subjectIntegrity,
                                   recommendation      |->
                                     IF r.qaStatus = "pass" THEN "Ready for Vinted"
                                     ELSE "Manual review required" ],
          vinted_safe        |-> (r.qaStatus = "pass"),
          audit_trail        |-> r.auditTrail ]
  IN  [r EXCEPT !.pc     = "returned",
                !.result = [ qa_status           |-> r.qaStatus,
                             pixel_delta_percent |-> (RoundTimes(r.pixelDelta, 10000)),
                             forensic_log        |-> forensicLog,
                             success             |-> TRUE ]]

\* QCatch with the digests computed before the fault left in the log.
QCatchKeepsHashes(r) ==
  LET qaTime      == r.clock - r.startTime
      auditTrail  == Append(r.auditTrail, <<"ERROR: ", r.thrown>>)
      forensicLog ==
        [ image_id           |-> r.imageId,
          timestamp_start    |-> r.timestampStart,
          timestamp_end      |-> r.clock,
          processing_time_ms |-> qaTime,
          original_hash      |-> r.originalHash,
          edited_hash        |-> r.editedHash,
          mask_hash          |-> r.maskHash,
          agents_executed    |-> <<"removebg", "inpaint", "qa">>,
          agent1_output      |-> [ mask_generation_time_ms |-> r.agentTimings.agent1_time_ms,
                                   success                 |-> TRUE ],
          agent2_output      |-> [ inpaint_time_ms |-> r.agentTimings.agent2_time_ms,
                                   model           |-> "imagen-3.0-capability-001",
                                   smart_prompt    |-> r.agentTimings.smart_prompt,
                                   success         |-> TRUE ],
          qa_output          |-> [ pixel_delta_percent |-> Num(-100),
                                   ssim_score          |-> Num(-1000),
                                   qa_status           |-> "fail",
                                   subject_integrity   |-> "modified",
                                   recommendation      |->
                                     "QA process failed - manual review required" ],
          vinted_safe        |-> FALSE,
          audit_trail        |-> auditTrail ]
  IN  [r EXCEPT !.pc         = "returned",
                !.auditTrail = auditTrail,
                !.result     = [ qa_status           |-> "fail",
                                 pixel_delta_percent |-> Num(-100),
                                 forensic_log        |-> forensicLog,
                                 success             |-> FALSE,
                                 error               |-> r.thrown ]]

\* Lines 193-229: the catch clause.  -1 is -1000 thousandths for ssim_score
\* and -100 hundredths for pixel_delta_percent.
QCatch(r) ==
  LET qaTime      == r.clock - r.startTime
      auditTrail  == Append(r.auditTrail, <<"ERROR: ", r.thrown>>)
      forensicLog ==
        [ image_id           |-> r.imageId,
          timestamp_start    |-> r.timestampStart,
          timestamp_end      |-> r.clock,
          processing_time_ms |-> qaTime,
          original_hash      |-> <<>>,
          edited_hash        |-> <<>>,
          mask_hash          |-> <<>>,
          agents_executed    |-> <<"removebg", "inpaint", "qa">>,
          agent1_output      |-> [ mask_generation_time_ms |-> r.agentTimings.agent1_time_ms,
                                   success                 |-> TRUE ],
          agent2_output      |-> [ inpaint_time_ms |-> r.agentTimings.agent2_time_ms,
                                   model           |-> "imagen-3.0-capability-001",
                                   smart_prompt    |-> r.agentTimings.smart_prompt,
                                   success         |-> TRUE ],
          qa_output          |-> [ pixel_delta_percent |-> Num(-100),
                                   ssim_score          |-> Num(-1000),
                                   qa_status           |-> "fail",
                                   subject_integrity   |-> "modified",
                                   recommendation      |->
                                     "QA process failed - manual review required" ],
          vinted_safe        |-> FALSE,
          audit_trail        |-> auditTrail ]
  IN  [r EXCEPT !.pc         = "returned",
                !.auditTrail = auditTrail,
                !.result     = [ qa_status           |-> "fail",
                                 pixel_delta_percent |-> Num(-100),
                                 forensic_log        |-> forensicLog,
                                 success             |-> FALSE,
                                 error               |-> r.thrown ]]

\* One step of a run from its position.
QStep(r) ==
  CASE r.pc = "hashes"   -> QHashes(r)
    [] r.pc = "metadata" -> QMetadata(r)
    [] r.pc = "extract"  -> QExtract(r)
    [] r.pc = "subject"  -> QSubject(r)
    [] r.pc = "ssim"     -> QSsim(r)
    [] r.pc = "delta"    -> QDelta(r)
    [] r.pc = "verdict"  -> QVerdict(r)
    [] r.pc = "assemble" -> QAssemble(r)
    [] r.pc = "catch"    -> QCatch(r)
    [] OTHER             -> r

QFinished(r) == r.pc \in {"returned", "escaped"}

RECURSIVE QRun(_)
QRun(r) == IF QFinished(r) THEN r ELSE QRun(QStep(r))

\* await validateEdit(...): the run to its end.
validateEdit(originalBuffer, editedBuffer, maskBuffer, imageId, agentTimings, clock) ==
  QRun(QEntry(originalBuffer, editedBuffer, maskBuffer, imageId, agentTimings, clock))

----------------------------------------------------------------------------
(* generateMask                                                            *)

\* What the remote model call of one stage can do: reject, answer with no
\* candidate / prediction, answer without image data, or answer with bytes.
RemoteError == [kind |-> "error", message |-> "deadline exceeded"]

RemoteEmpty == [kind |-> "empty"]

RemoteNoData == [kind |-> "nodata"]

RemoteImage(buffer) == [kind |-> "image", data |-> buffer]

base64(buffer) == <<"base64", buffer>>

\* Lines 131-253 of part_000.  elapsed is Date.now() - startTime, one awaited
\* call.  Every throw of the body lands in its own catch clause.
generateMask(imageBuffer, response) ==
  LET elapsed == 1
      failure(message) ==
        [ mask_buffer        |-> Undecodable,
          mask_base64        |-> <<>>,
          generation_time_ms |-> elapsed,
          success            |-> FALSE,
          error              |-> message ]
  IN  CASE response.kind = "error"  -> failure(response.message)
        [] response.kind = "empty"  -> failure("No candidates in Gemini response")
        [] response.kind = "nodata" -> failure("No mask image in Gemini response")
        [] OTHER ->
             [ mask_buffer        |-> response.data,
               mask_base64        |-> base64(response.data),
               generation_time_ms |-> elapsed,
               success            |-> TRUE ]

\* The remote call of generateMask, when it failed.
MaskRemoteFailures(response) ==
  IF response.kind = "image" THEN {} ELSE {"mask"}

----------------------------------------------------------------------------
(* inpaintBackground                                                       *)

DEFAULT_PROMPT == "Warm honey-toned herringbone parquet floor catching soft afternoon light, cream plastered walls with subtle texture, cozy lived-in Parisian apartment atmosphere, gentle natural shadows"

\* FinalPrompt without the fallback of the inner catch clause: a failed
\* prompt call leaves the prompt empty.
FinalPromptNoFallback(promptResponse) ==
  IF promptResponse.kind = "text" /\ promptResponse.text # ""
    THEN promptResponse.text
    ELSE IF promptResponse.kind = "text" THEN DEFAULT_PROMPT ELSE ""

\* generateSmartPrompt followed by the inner try/catch of inpaintBackground
\* (lines 88-95): text?.trim() || DEFAULT_PROMPT, and DEFAULT_PROMPT when the
\* call throws.
FinalPrompt(promptResponse) ==
  IF promptResponse.kind = "text" /\ promptResponse.text # ""
    THEN promptResponse.text
    ELSE DEFAULT_PROMPT

\* The value of the catch clause (lines 330-352 and 536-558).
InpaintFailure(message, elapsed) ==
  [ edited_buffer      |-> Undecodable,
    edited_base64      |-> <<>>,
    inpainted_buffer   |-> Undecodable,
    processing_time_ms |-> elapsed,
    model_version      |-> "imagen-3.0-capability-001",
    smart_prompt       |-> "",
    success            |-> FALSE,
    error              |-> message ]

\* The message thrown by the inpainting call of lines 97-170 (426-516), or ""
\* when it yields image bytes.
InpaintFault(inpaintResponse) ==
  CASE inpaintResponse.kind = "error"  -> inpaintResponse.message
    [] inpaintResponse.kind = "empty"  -> "No predictions returned from Imagen 3"
    [] inpaintResponse.kind = "nodata" -> "No image data in Imagen 3 response"
    [] OTHER                           -> ""

\* The second version of the file (lines 416-558): prompt, then inpainting.
InpaintPlain(env) ==
  LET finalPrompt == FinalPrompt(env.prompt)
      fault       == InpaintFault(env.inpaint)
  IN  IF fault # "" THEN InpaintFailure(fault, 2)
      ELSE [ edited_buffer      |-> env.inpaint.data,
             edited_base64      |-> base64(env.inpaint.data),
             inpainted_buffer   |-> env.inpaint.data,
             processing_time_ms |-> 2,
             model_version      |-> "imagen-3.0 + gemini-2.0-flash",
             smart_prompt       |-> finalPrompt,
             success            |-> TRUE ]

\* The first version of the file (lines 70-353): prompt, inpainting, then the
\* canvas is extended to 2:3 around the inpainted image and outpainted.  The
\* canvas arithmetic needs the inpainted image's metadata, so sharp throws on
\* bytes it cannot decode; the final metadata() call does the same for the
\* outpainted bytes.  The returned record carries both images.
InpaintOutpaint(env) ==
  LET finalPrompt == FinalPrompt(env.prompt)
      fault       == InpaintFault(env.inpaint)
  IN  IF fault # "" THEN InpaintFailure(fault, 2)
      ELSE IF ~env.inpaint.data.dec THEN InpaintFailure(UnsupportedFormat, 3)
      ELSE CASE env.outpaint.kind = "error"  -> InpaintFailure(env.outpaint.message, 6)
             [] env.outpaint.kind = "empty"  -> InpaintFailure("No predictions from outpainting", 6)
             [] env.outpaint.kind = "nodata" -> InpaintFailure("No image data from outpainting", 6)
             [] OTHER ->
                  IF ~env.outpaint.data.dec THEN InpaintFailure(UnsupportedFormat, 7)
                  ELSE [ edited_buffer      |-> env.outpaint.data,
                         edited_base64      |-> base64(env.outpaint.data),
                         inpainted_buffer   |-> env.inpaint.data,
                         processing_time_ms |-> 6,
                         model_version      |-> "imagen-3.0 + gemini-2.0-flash + outpaint",
                         smart_prompt       |-> finalPrompt,
                         success            |-> TRUE ]

\* The remote calls inpaintBackground made that failed (rejected, or answered
\* without a usable image): the smart-prompt call, the inpainting call and,
\* in the first version once the inpainted image is decoded, the outpainting
\* call.
InpaintRemoteFailures(strategy, env) ==
  (IF env.prompt.kind = "error" THEN {"prompt"} ELSE {})
    \cup (IF InpaintFault(env.inpaint) # "" THEN {"inpaint"} ELSE {})
    \cup (IF /\ strategy = "outpaint"
              /\ InpaintFault(env.inpaint) = ""
              /\ env.inpaint.data.dec
              /\ env.outpaint.kind # "image"
            THEN {"outpaint"} ELSE {})

\* The image the inpainting call answered with, <<>> when it answered none.
InpaintAnswer(env) == IF env.inpaint.kind = "image" THEN env.inpaint.data ELSE <<>>

\* await inpaintBackground(...) under the strategy the build links.
inpaintBackground(strategy, env) ==
  IF strategy = "outpaint" THEN InpaintOutpaint(env) ELSE InpaintPlain(env)

----------------------------------------------------------------------------
(* processImage: helpers                                                   *)

COST_IMAGEN_MASK == 4

COST_IMAGEN_INPAINT == 8

\* The index of the last "." of name, 0 when there is none.
RECURSIVE LastDot(_, _)
LastDot(name, i) ==
  IF i = 0 THEN 0 ELSE IF name[i] = "." THEN i ELSE LastDot(name, i - 1)

\* input.image_name.replace(/\.[^/.]+$/, ''): names are sequences of
\* characters; the match is the last "." with a non-empty rest holding no "/".
BaseName(name) ==
  LET d == LastDot(name, Len(name))
  IN  IF d > 0 /\ d < Len(name) /\ \A j \in (d + 1)..Len(name) : name[j] # "/"
        THEN SubSeq(name, 1, d - 1)
        ELSE name

\* join(config.outputDir, dir, `${baseName}${suffix}`)
ArtifactPath(dir, baseName, suffix) == <<".", dir, baseName, suffix>>

Null == [null |-> TRUE]

JsonNumber(n) == IF n.nan THEN Null ELSE n

\* JSON.stringify(forensic_log, null, 2): NaN is written as null.
JSONStringify(log) ==
  [ json |-> [log EXCEPT !.qa_output.pixel_delta_percent = JsonNumber(@),
                         !.qa_output.ssim_score          = JsonNumber(@)] ]

\* QAEditedInput handing over the final image of Stage 2.
QAEditedInputFinal(inpaintResult) == inpaintResult.edited_buffer

\* Line 102: the edited image validateEdit is called on.
QAEditedInput(inpaintResult) == inpaintResult.inpainted_buffer

\* JSON.parse of a serialized log: every string, boolean, number and array is
\* read back as written, and null is read back as null.
JSONParse(text) == text.json

\* SkipQAResult with a stub that does not certify the unvalidated image.
SkipQAResultUnsafe(imageId, maskResult, inpaintResult, clock) ==
  [ qa_status           |-> "skipped",
    pixel_delta_percent |-> Num(0),
    forensic_log        |->
      [ image_id           |-> imageId,
        timestamp_start    |-> clock,
        timestamp_end      |-> clock,
        processing_time_ms |-> 0,
        original_hash      |-> <<>>,
        edited_hash        |-> <<>>,
        mask_hash          |-> <<>>,
        agents_executed    |-> <<"agent1", "agent2">>,
        agent1_output      |-> [ mask_generation_time_ms |-> maskResult.generation_time_ms,
                                 success                 |-> TRUE ],
        agent2_output      |-> [ inpaint_time_ms |-> inpaintResult.processing_time_ms,
                                 model           |-> "imagen-3.0",
                                 smart_prompt    |-> inpaintResult.smart_prompt,
                                 success         |-> TRUE ],
        qa_output          |-> [ pixel_delta_percent |-> Num(0),
                                 ssim_score          |-> Num(0),
                                 qa_status           |-> "skipped",
                                 subject_integrity   |-> "preserved",
                                 recommendation      |-> "QA skipped" ],
        vinted_safe        |-> FALSE,
        audit_trail        |-> <<<<"QA skipped">>>> ] ]

\* Lines 81-97: the value built when options.skipQA is set.
SkipQAResult(imageId, maskResult, inpaintResult, clock) ==
  [ qa_status           |-> "skipped",
    pixel_delta_percent |-> Num(0),
    forensic_log        |->
      [ image_id           |-> imageId,
        timestamp_start    |-> clock,
        timestamp_end      |-> clock,
        processing_time_ms |-> 0,
        original_hash      |-> <<>>,
        edited_hash        |-> <<>>,
        mask_hash          |-> <<>>,
        agents_executed    |-> <<"agent1", "agent2">>,
        agent1_output      |-> [ mask_generation_time_ms |-> maskResult.generation_time_ms,
                                 success                 |-> TRUE ],
        agent2_output      |-> [ inpaint_time_ms |-> inpaintResult.processing_time_ms,
                                 model           |-> "imagen-3.0",
                                 smart_prompt    |-> inpaintResult.smart_prompt,
                                 success         |-> TRUE ],
        qa_output          |-> [ pixel_delta_percent |-> Num(0),
                                 ssim_score          |-> Num(1000),
                                 qa_status           |-> "skipped",
                                 subject_integrity   |-> "preserved",
                                 recommendation      |-> "QA skipped" ],
        vinted_safe        |-> TRUE,
        audit_trail        |-> <<<<"QA skipped">>>> ] ]

\* SuccessResult with success tied to the QA verdict.
SuccessResultGated(imageId, imageName, editedPath, maskPath, forensicPath, forensicLog, totalTime) ==
  [ success       |-> forensicLog.vinted_safe,
    image_id      |-> imageId,
    original_path |-> imageName,
    edited_path   |-> editedPath,
    mask_path     |-> maskPath,
    forensic_path |-> forensicPath,
    forensic_log  |-> forensicLog,
    total_time_ms |-> totalTime,
    cost_estimate |-> COST_IMAGEN_MASK + COST_IMAGEN_INPAINT ]

\* Lines 116-129: the value of the straight path.
SuccessResult(imageId, imageName, editedPath, maskPath, forensicPath, forensicLog, totalTime) ==
  [ success       |-> TRUE,
    image_id      |-> imageId,
    original_path |-> imageName,
    edited_path   |-> editedPath,
    mask_path     |-> maskPath,
    forensic_path |-> forensicPath,
    forensic_log  |-> forensicLog,
    total_time_ms |-> totalTime,
    cost_estimate |-> COST_IMAGEN_MASK + COST_IMAGEN_INPAINT ]

\* FailureResult when what was thrown is not an Error object: line 144 then
\* reports 'Unknown error'.
FailureResultUnknown(imageId, imageName, totalTime, message) ==
  [ success       |-> FALSE,
    image_id      |-> imageId,
    original_path |-> imageName,
    edited_path   |-> <<>>,
    mask_path     |-> <<>>,
    forensic_path |-> <<>>,
    forensic_log  |-> <<>>,
    total_time_ms |-> totalTime,
    cost_estimate |-> 0,
    error         |-> <<"Unknown error">> ]

\* FailureResult that still charges the segmentation call.
FailureResultCharged(imageId, imageName, totalTime, message) ==
  [ success       |-> FALSE,
    image_id      |-> imageId,
    original_path |-> imageName,
    edited_path   |-> <<>>,
    mask_path     |-> <<>>,
    forensic_path |-> <<>>,
    forensic_log  |-> <<>>,
    total_time_ms |-> totalTime,
    cost_estimate |-> COST_IMAGEN_MASK,
    error         |-> message ]

\* Lines 131-146: the value of the catch clause; forensic_log is {}.
FailureResult(imageId, imageName, totalTime, message) ==
  [ success       |-> FALSE,
    image_id      |-> imageId,
    original_path |-> imageName,
    edited_path   |-> <<>>,
    mask_path     |-> <<>>,
    forensic_path |-> <<>>,
    forensic_log  |-> <<>>,
    total_time_ms |-> totalTime,
    cost_estimate |-> 0,
    error         |-> message ]

----------------------------------------------------------------------------
(* The declared shapes (types/pipeline)                                    *)

ForensicLogFields ==
  { "image_id", "timestamp_start", "timestamp_end", "processing_time_ms",
    "original_hash", "edited_hash", "mask_hash", "agents_executed",
    "agent1_output", "agent2_output", "qa_output", "vinted_safe", "audit_trail" }

Agent1OutputFields == { "mask_generation_time_ms", "success" }

Agent2OutputFields == { "inpaint_time_ms", "model", "smart_prompt", "success" }

QAOutputFields ==
  { "pixel_delta_percent", "ssim_score", "qa_status", "subject_integrity",
    "recommendation" }

\* Every field of interface ForensicLog is present in log.
IsForensicLog(log) ==
  /\ DOMAIN log = ForensicLogFields
  /\ DOMAIN log.agent1_output = Agent1OutputFields
  /\ DOMAIN log.agent2_output = Agent2OutputFields
  /\ DOMAIN log.qa_output = QAOutputFields

\* The required fields of interface QAResult (error is optional).
QAResultFields == { "qa_status", "pixel_delta_percent", "forensic_log", "success" }

\* The required fields of interface PipelineResult (error is optional).
PipelineResultFields ==
  { "success", "image_id", "original_path", "edited_path", "mask_path",
    "forensic_path", "forensic_log", "total_time_ms", "cost_estimate" }

----------------------------------------------------------------------------
(* State                                                                   *)

VARIABLES
  pc,        \* position of the processImage run
  input,     \* its PipelineInput
  options,   \* its ProcessOptions
  strategy,  \* the inpaintBackground version the build links
  clock,     \* Date.now()
  calls,     \* how often each agent has been invoked by the run
  inflight,  \* the agents whose promise is pending
  files,     \* the artifact store: the set of files written
  loc,       \* the locals of processImage, the value thrown out of it (thrown),
             \* the path whose writeFile rejected (writeFailed) and the remote
             \* calls of the run that failed (remoteFailed) and the image
             \* the inpainting call answered with (inpainted)
  result,    \* the PipelineResult the promise resolved to, <<>> before
  q,         \* a validateEdit run called on its own
  batch,     \* a processBatch call: its arguments, its loop and the
             \* processImage runs it has started
  canvas     \* a run of the canvas computation of inpaintBackground

vars == <<pc, input, options, strategy, clock, calls, inflight, files, loc, result, q, batch, canvas>>

pipelineVars == <<pc, input, options, strategy, clock, calls, inflight, files, loc, result, batch, canvas>>

----------------------------------------------------------------------------
(* The inputs and the environment of a processImage run                    *)

ImageNames == { <<"a", ".", "j">>, <<"a", ".", "p">>, <<"b">> }

InputBuffers == { Image(<<100, 0>>), Undecodable }

ImageIds == { "uuid-1" }

Strategies == { "plain", "outpaint" }

MaskResponses ==
  { RemoteError, RemoteEmpty, RemoteNoData }
    \cup { RemoteImage(b) : b \in { Image(<<0, 0>>), Image(<<255, 255>>), Undecodable } }

PromptResponses ==
  { [kind |-> "error"], [kind |-> "text", text |-> ""],
    [kind |-> "text", text |-> "Sunlit oak floor"] }

InpaintResponses ==
  { RemoteError, RemoteEmpty, RemoteNoData }
    \cup { RemoteImage(b) : b \in { Image(<<100, 0>>), Image(<<110, 0>>),
                                   Image(<<0, 100>>), Undecodable } }

OutpaintResponses ==
  { RemoteError, RemoteEmpty, RemoteNoData }
    \cup { RemoteImage(b) : b \in { Image(<<100, 100, 0>>), Undecodable } }

InpaintEnvs ==
  [ prompt : PromptResponses, inpaint : InpaintResponses, outpaint : OutpaintResponses ]

NoRun == QEntry(Undecodable, Undecodable, Undecodable, "", <<>>, 0)

\* No processBatch call.
NoBatch ==
  [ pc |-> "idle", inputs |-> <<>>, concurrency |-> 1, i |-> 0, results |-> <<>>,
    runs |-> <<>>, chunks |-> <<>>, thrown |-> <<>> ]

\* No canvas computation.
NoCanvas ==
  [ pc |-> "idle", adaptive |-> FALSE, mask |-> <<>>, analysis |-> <<>>,
    adaptiveScale |-> <<>>, origWidth |-> 0, origHeight |-> 0,
    scaledWidth |-> 0, scaledHeight |-> 0, newWidth |-> 0, newHeight |-> 0 ]

Init ==
  /\ pc = "start"
  /\ input \in [ image_buffer : InputBuffers, image_name : ImageNames ]
  /\ options \in [ skipQA : BOOLEAN ]
  /\ strategy \in Strategies
  /\ clock = 0
  /\ calls = [ generateMask |-> 0, inpaintBackground |-> 0, validateEdit |-> 0 ]
  /\ inflight = {}
  /\ files = {}
  /\ loc = [ imageId |-> "", startTime |-> 0, baseName |-> <<>>, thrown |-> <<>>,
             writeFailed |-> <<>>, remoteFailed |-> {}, inpainted |-> <<>>,
             maskResult |-> <<>>, inpaintResult |-> <<>>, qaResult |-> <<>>,
             maskPath |-> <<>>, editedPath |-> <<>>, forensicPath |-> <<>> ]
  /\ result = <<>>
  /\ batch = NoBatch
  /\ canvas = NoCanvas
  /\ q = NoRun

----------------------------------------------------------------------------
(* processImage                                                            *)

\* await writeFile(path, data) that succeeds: the file holds data.
WriteFile(path, data) ==
  { f \in files : f.path # path } \cup { [path |-> path, data |-> data] }

WriteError(path) == <<"EACCES: permission denied, open ", path>>

\* MaskFailed with the check of line 50 left out.
MaskFailedNever(maskResult) == FALSE

\* Line 50.
MaskFailed(maskResult) == ~maskResult.success

\* InpaintFailed with the check of line 67 left out.
InpaintFailedNever(inpaintResult) == FALSE

\* Line 67.
InpaintFailed(inpaintResult) == ~inpaintResult.success

\* SkipsQA with the option ignored.
SkipsQANever(opts) == FALSE

\* Line 79.
SkipsQA(opts) == opts.skipQA

\* A throw inside the try block of lines 45-131: the promise resolves to the
\* value of the catch clause.
Caught(message, now) ==
  /\ result' = FailureResult(loc.imageId, input.image_name, now - loc.startTime, message)
  /\ pc' = "returned"

\* A throw outside the try block: the promise rejects.
Escapes(message) ==
  /\ loc' = [loc EXCEPT !.thrown = message]
  /\ pc' = "rejected"
  /\ UNCHANGED result

\* Lines 29-41: the identifiers and the three mkdir calls are issued.
Start ==
  /\ pc = "start"
  /\ \E id \in ImageIds :
       loc' = [loc EXCEPT !.imageId = id, !.startTime = clock]
  /\ pc' = "mkdir"
  /\ UNCHANGED <<input, options, strategy, clock, calls, inflight, files, result, q, batch, canvas>>

\* Lines 37-48: Promise.all of the mkdir calls settles; on success the base
\* name is derived, the try block is entered and generateMask is called.
MkdirDone ==
  /\ pc = "mkdir"
  /\ clock' = clock + 1
  /\ \E ok \in BOOLEAN :
       IF ok
         THEN /\ loc' = [loc EXCEPT !.baseName = BaseName(input.image_name)]
              /\ calls' = [calls EXCEPT !.generateMask = @ + 1]
              /\ inflight' = inflight \cup {"agent1"}
              /\ pc' = "agent1"
              /\ UNCHANGED result
         ELSE /\ Escapes(<<"EACCES: permission denied, mkdir">>)
              /\ UNCHANGED <<calls, inflight>>
  /\ UNCHANGED <<input, options, strategy, files, q, batch, canvas>>

\* Lines 48-55: generateMask settles; on success writeFile(maskPath) is issued.
Agent1Done ==
  /\ pc = "agent1"
  /\ \E response \in MaskResponses :
       LET maskResult == generateMask(input.image_buffer, response)
           now        == clock + maskResult.generation_time_ms
       IN  /\ clock' = now
           /\ IF MaskFailed(maskResult)
                THEN /\ Caught(<<"Mask generation failed: ", maskResult.error>>, now)
                     /\ loc' = [loc EXCEPT !.maskResult = maskResult,
                                           !.remoteFailed = @ \cup MaskRemoteFailures(response)]
                ELSE /\ loc' = [loc EXCEPT !.maskResult = maskResult,
                                           !.remoteFailed = @ \cup MaskRemoteFailures(response),
                                           !.maskPath = ArtifactPath("masks", loc.baseName, "_mask.png")]
                     /\ pc' = "writeMask"
                     /\ UNCHANGED result
  /\ inflight' = inflight \ {"agent1"}
  /\ UNCHANGED <<input, options, strategy, calls, files, q, batch, canvas>>

\* Lines 55-65: the mask write settles; on success inpaintBackground is called.
WriteMaskDone ==
  /\ pc = "writeMask"
  /\ clock' = clock + 1
  /\ \E ok \in BOOLEAN :
       IF ok
         THEN /\ files' = WriteFile(loc.maskPath, loc.maskResult.mask_buffer)
              /\ calls' = [calls EXCEPT !.inpaintBackground = @ + 1]
              /\ inflight' = inflight \cup {"agent2"}
              /\ pc' = "agent2"
              /\ UNCHANGED <<loc, result>>
         ELSE /\ Caught(WriteError(loc.maskPath), clock + 1)
              /\ loc' = [loc EXCEPT !.writeFailed = loc.maskPath]
              /\ UNCHANGED <<files, calls, inflight>>
  /\ UNCHANGED <<input, options, strategy, q, batch, canvas>>

\* Lines 60-72: inpaintBackground settles; on success writeFile(editedPath)
\* is issued.
Agent2Done ==
  /\ pc = "agent2"
  /\ \E env \in InpaintEnvs :
       LET inpaintResult == inpaintBackground(strategy, env)
           now           == clock + inpaintResult.processing_time_ms
       IN  /\ clock' = now
           /\ IF InpaintFailed(inpaintResult)
                THEN /\ Caught(<<"Inpainting failed: ", inpaintResult.error>>, now)
                     /\ loc' = [loc EXCEPT !.inpaintResult = inpaintResult,
                                           !.remoteFailed = @ \cup InpaintRemoteFailures(strategy, env),
                                           !.inpainted = InpaintAnswer(env)]
                ELSE /\ loc' = [loc EXCEPT !.inpaintResult = inpaintResult,
                                           !.remoteFailed = @ \cup InpaintRemoteFailures(strategy, env),
                                           !.inpainted = InpaintAnswer(env),
                                           !.editedPath = ArtifactPath("edited", loc.baseName, "_edited.jpg")]
                     /\ pc' = "writeEdited"
                     /\ UNCHANGED result
  /\ inflight' = inflight \ {"agent2"}
  /\ UNCHANGED <<input, options, strategy, calls, files, q, batch, canvas>>

\* Lines 72-110 and 116-129: the edited-image write settles; on success either
\* the skipQA value is built and the run returns, or validateEdit is called.
WriteEditedDone ==
  /\ pc = "writeEdited"
  /\ clock' = clock + 1
  /\ \E ok \in BOOLEAN :
       IF ~ok
         THEN /\ Caught(WriteError(loc.editedPath), clock + 1)
              /\ loc' = [loc EXCEPT !.writeFailed = loc.editedPath]
              /\ UNCHANGED <<files, calls, inflight>>
         ELSE /\ files' = WriteFile(loc.editedPath, loc.inpaintResult.edited_buffer)
              /\ IF SkipsQA(options)
                   THEN LET qaResult == SkipQAResult(loc.imageId, loc.maskResult,
                                                     loc.inpaintResult, clock + 1)
                        IN  /\ loc' = [loc EXCEPT !.qaResult = qaResult]
                            /\ result' = SuccessResult(loc.imageId, input.image_name,
                                                       loc.editedPath, loc.maskPath, <<>>,
                                                       qaResult.forensic_log,
                                                       (clock + 1) - loc.startTime)
                            /\ pc' = "returned"
                            /\ UNCHANGED <<calls, inflight>>
                   ELSE /\ calls' = [calls EXCEPT !.validateEdit = @ + 1]
                        /\ inflight' = inflight \cup {"agent3"}
                        /\ pc' = "agent3"
                        /\ UNCHANGED <<loc, result>>
  /\ UNCHANGED <<input, options, strategy, q, batch, canvas>>

\* Lines 100-112: validateEdit settles; its forensic log is serialized and
\* writeFile(forensicPath) is issued.  A throw of validateEdit would be caught
\* by the try block like any other.
Agent3Done ==
  /\ pc = "agent3"
  /\ LET run == validateEdit(input.image_buffer, QAEditedInput(loc.inpaintResult),
                             loc.maskResult.mask_buffer, loc.imageId,
                             [ agent1_time_ms |-> loc.maskResult.generation_time_ms,
                               agent2_time_ms |-> loc.inpaintResult.processing_time_ms,
                               smart_prompt   |-> loc.inpaintResult.smart_prompt ],
                             clock)
     IN  /\ clock' = run.clock
         /\ q' = run
         /\ IF run.pc = "escaped"
              THEN /\ Caught(<<run.thrown>>, run.clock)
                   /\ UNCHANGED loc
              ELSE /\ loc' = [loc EXCEPT !.qaResult = run.result,
                                         !.forensicPath = ArtifactPath("logs", loc.baseName, "_forensic.json")]
                   /\ pc' = "writeForensic"
                   /\ UNCHANGED result
  /\ inflight' = inflight \ {"agent3"}
  /\ UNCHANGED <<input, options, strategy, calls, files, batch, canvas>>

\* Lines 112-129: the forensic-log write settles; on success the run returns.
WriteForensicDone ==
  /\ pc = "writeForensic"
  /\ clock' = clock + 1
  /\ \E ok \in BOOLEAN :
       IF ok
         THEN /\ files' = WriteFile(loc.forensicPath, JSONStringify(loc.qaResult.forensic_log))
              /\ result' = SuccessResult(loc.imageId, input.image_name, loc.editedPath,
                                         loc.maskPath, loc.forensicPath,
                                         loc.qaResult.forensic_log,
                                         (clock + 1) - loc.startTime)
              /\ pc' = "returned"
              /\ UNCHANGED loc
         ELSE /\ Caught(WriteError(loc.forensicPath), clock + 1)
              /\ loc' = [loc EXCEPT !.writeFailed = loc.forensicPath]
              /\ UNCHANGED files
  /\ UNCHANGED <<input, options, strategy, calls, inflight, q, batch, canvas>>

Next ==
  \/ Start
  \/ MkdirDone
  \/ Agent1Done
  \/ WriteMaskDone
  \/ Agent2Done
  \/ WriteEditedDone
  \/ Agent3Done
  \/ WriteForensicDone

Spec == Init /\ [][Next]_vars

----------------------------------------------------------------------------
(* validateEdit called on its own                                          *)

ImgPalette == { 0, 100, 110 }

MaskPalette == { 127, 128 }

Rasters(palette) == UNION { [1..n -> palette] : n \in 1..MaxPix }

QImages == { Image(px) : px \in Rasters(ImgPalette) } \cup { Undecodable }

QMasks == { Image(px) : px \in Rasters(MaskPalette) } \cup { Undecodable }

QTimings == [ agent1_time_ms |-> 1, agent2_time_ms |-> 2, smart_prompt |-> DEFAULT_PROMPT ]

QInit ==
  /\ \E o \in QImages, e \in QImages, m \in QMasks :
       q = QEntry(o, e, m, "uuid-1", QTimings, 0)
  /\ pc = "idle"
  /\ input = [ image_buffer |-> Undecodable, image_name |-> <<>> ]
  /\ options = [ skipQA |-> FALSE ]
  /\ strategy = "plain"
  /\ clock = 0
  /\ calls = [ generateMask |-> 0, inpaintBackground |-> 0, validateEdit |-> 1 ]
  /\ inflight = {}
  /\ files = {}
  /\ loc = <<>>
  /\ result = <<>>
  /\ batch = NoBatch
  /\ canvas = NoCanvas

\* Lines 72-78.
QaHashes ==
  /\ q.pc = "hashes"
  /\ q' = QHashes(q)
  /\ UNCHANGED pipelineVars

\* Lines 80-90.
QaMetadata ==
  /\ q.pc = "metadata"
  /\ q' = QMetadata(q)
  /\ UNCHANGED pipelineVars

\* Lines 92-100.
QaExtract ==
  /\ q.pc = "extract"
  /\ q' = QExtract(q)
  /\ UNCHANGED pipelineVars

\* Lines 102-114.
QaSubject ==
  /\ q.pc = "subject"
  /\ q' = QSubject(q)
  /\ UNCHANGED pipelineVars

\* Lines 116-127.
QaSsim ==
  /\ q.pc = "ssim"
  /\ q' = QSsim(q)
  /\ UNCHANGED pipelineVars

\* Lines 129-137.
QaDelta ==
  /\ q.pc = "delta"
  /\ q' = QDelta(q)
  /\ UNCHANGED pipelineVars

\* Lines 139-149.
QaVerdict ==
  /\ q.pc = "verdict"
  /\ q' = QVerdict(q)
  /\ UNCHANGED pipelineVars

\* Lines 151-191.
QaAssemble ==
  /\ q.pc = "assemble"
  /\ q' = QAssemble(q)
  /\ UNCHANGED pipelineVars

\* Lines 193-229.
QaCatch ==
  /\ q.pc = "catch"
  /\ q' = QCatch(q)
  /\ UNCHANGED pipelineVars

QNext ==
  \/ QaHashes
  \/ QaMetadata
  \/ QaExtract
  \/ QaSubject
  \/ QaSsim
  \/ QaDelta
  \/ QaVerdict
  \/ QaAssemble
  \/ QaCatch

SpecQA == QInit /\ [][QNext]_vars

----------------------------------------------------------------------------
(* The verdict of validateEdit (lines 139-191) over the values calculateSSIM *)
(* and the pixel-delta loop can hand it.  An exact score of 0.92 needs a     *)
(* subject of at least ten pixels, more than the rasters of SpecQA hold, so  *)
(* here the two numbers are drawn and the run starts at line 139.            *)

\* The scores are the fractions p / (25 * k), k in 1..MaxGrid, of either sign.
MaxGrid == 4

SsimValues ==
  { Fraction(neg, ToBig(p), ToBig(25 * k)) :
      neg \in BOOLEAN, p \in 0..(25 * MaxGrid), k \in 1..MaxGrid }

\* A score just below the threshold: the subject pixels (0, 17) against
\* (3, 13) score 0.91975.
NearThreshold == { calculateSSIM(<<0, 17>>, <<3, 13>>) }

\* changedPixels / subjectOriginal.length: none, half or all of the pixels.
DeltaValues ==
  { Fraction(FALSE, ToBig(0), ToBig(1)), Fraction(FALSE, ToBig(1), ToBig(2)),
    Fraction(FALSE, ToBig(1), ToBig(1)) }

\* The run at line 139 with locals ssim and pixelDelta; the trail holds the
\* lines pushed at 77, 100, 113, 126 and 137.
AtVerdict(ssim, pixelDelta) ==
  LET entry == QEntry(Image(<<100, 0>>), Image(<<110, 0>>), Image(<<0, 0>>),
                      "uuid-1", QTimings, 0)
      r     == QSubject(QExtract(QMetadata(QHashes(entry))))
  IN  [r EXCEPT !.ssim        = ssim,
                !.ssimPercent = RoundTimes(ssim, 10000),
                !.pixelDelta  = pixelDelta,
                !.auditTrail  =
                   r.auditTrail
                     \o << <<"SSIM (subject area): ", RoundTimes(ssim, 10000), "%">>,
                           <<"Pixel delta (reference): ",
                             RoundTimes(pixelDelta, 10000), "%">> >>,
                !.pc          = "verdict"]

VInit ==
  /\ \E ssim \in { s \in SsimValues : BigLeq(s.p, s.q) } \cup NearThreshold,
        pixelDelta \in DeltaValues :
       q = AtVerdict(ssim, pixelDelta)
  /\ pc = "idle"
  /\ input = [ image_buffer |-> Undecodable, image_name |-> <<>> ]
  /\ options = [ skipQA |-> FALSE ]
  /\ strategy = "plain"
  /\ clock = 0
  /\ calls = [ generateMask |-> 0, inpaintBackground |-> 0, validateEdit |-> 1 ]
  /\ inflight = {}
  /\ files = {}
  /\ loc = <<>>
  /\ result = <<>>
  /\ batch = NoBatch
  /\ canvas = NoCanvas

VNext ==
  \/ QaVerdict
  \/ QaAssemble

SpecVerdict == VInit /\ [][VNext]_vars

----------------------------------------------------------------------------
(* validateEdit called repeatedly on the same three buffers: every call    *)
(* after the first starts when the one before has returned, at the clock   *)
(* that call left and under a new image id.  loc holds the results of the  *)
(* calls that have returned.                                               *)

\* Number of calls in a row.
MaxCalls == 2

RepeatPalette == { 0, 110 }

RepeatImages == { Image(px) : px \in Rasters(RepeatPalette) } \cup { Undecodable }

RInit ==
  /\ \E o \in RepeatImages, e \in RepeatImages, m \in QMasks :
       q = QEntry(o, e, m, "uuid-1", QTimings, 0)
  /\ pc = "idle"
  /\ input = [ image_buffer |-> Undecodable, image_name |-> <<>> ]
  /\ options = [ skipQA |-> FALSE ]
  /\ strategy = "plain"
  /\ clock = 0
  /\ calls = [ generateMask |-> 0, inpaintBackground |-> 0, validateEdit |-> 1 ]
  /\ inflight = {}
  /\ files = {}
  /\ loc = <<>>
  /\ result = <<>>
  /\ batch = NoBatch
  /\ canvas = NoCanvas

\* Lines 50-69, entered again with the same buffers.
QaCallAgain ==
  /\ q.pc = "returned"
  /\ Len(loc) < MaxCalls - 1
  /\ loc' = Append(loc, q.result)
  /\ q' = QEntry(q.originalBuffer, q.editedBuffer, q.maskBuffer,
                 IF loc = <<>> THEN "uuid-2" ELSE "uuid-3", QTimings, q.clock)
  /\ calls' = [calls EXCEPT !.validateEdit = @ + 1]
  /\ UNCHANGED <<pc, input, options, strategy, clock, inflight, files, result, batch, canvas>>

RNext ==
  \/ QaHashes
  \/ QaMetadata
  \/ QaExtract
  \/ QaSubject
  \/ QaSsim
  \/ QaDelta
  \/ QaVerdict
  \/ QaAssemble
  \/ QaCatch
  \/ QaCallAgain

SpecRepeat == RInit /\ [][RNext]_vars

----------------------------------------------------------------------------
(* processBatch (lines 150-169).  Each input of a chunk gets its own       *)
(* processImage run, a record with the locals of that run; the runs of a   *)
(* chunk advance one awaited operation at a time, in any order.  The       *)
(* statements of a run are those of processImage above, applied to the     *)
(* run's record and to the shared artifact store.  Date.now() reads the    *)
(* same clock value throughout a batch.                                    *)

\* Longest input list and largest concurrency argument.
MaxBatch == 3

MaxConcurrency == 2

\* The file names of a batch of n inputs.
BatchNameList == << <<"a", ".", "j">>, <<"a", ".", "p">>, <<"b">> >>

BatchInputs(n) ==
  [ k \in 1..n |-> [ image_buffer |-> Image(<<100, 0>>),
                     image_name   |-> BatchNameList[((k - 1) % Len(BatchNameList)) + 1] ] ]

\* What the remote calls of a run in a batch answer.
BatchMaskResponses == { RemoteEmpty, RemoteImage(Image(<<0, 0>>)) }

BatchInpaintEnvs ==
  [ prompt   : { [kind |-> "text", text |-> "Sunlit oak floor"] },
    inpaint  : { RemoteError, RemoteImage(Image(<<110, 0>>)) },
    outpaint : { RemoteImage(Image(<<100, 100, 0>>)) } ]

\* Options that ask to skip Stage 3.
BatchOptionsSkipQA == [ skipQA |-> TRUE ]

\* Line 27: processBatch passes no options, so options = {}.
BatchOptions == [ skipQA |-> FALSE ]

\* An input whose processImage call has not been made.
NotStarted(in) ==
  [ pc |-> "notStarted", input |-> in, imageId |-> <<>>, startTime |-> 0,
    baseName |-> <<>>, maskResult |-> <<>>, inpaintResult |-> <<>>, qaResult |-> <<>>,
    maskPath |-> <<>>, editedPath |-> <<>>, forensicPath |-> <<>>,
    wrote |-> {}, thrown |-> <<>>, result |-> <<>> ]

\* Lines 29-41 for input k: processImage runs up to its first await.
Started(r, k, now) ==
  [r EXCEPT !.pc = "mkdir", !.imageId = <<"uuid", k>>, !.startTime = now]

\* Lines 131-146 for a run.
RunCaught(r, message, now) ==
  [r EXCEPT !.pc     = "returned",
            !.result = FailureResult(r.imageId, r.input.image_name,
                                     now - r.startTime, message)]

\* Chunk for inputs.slice(i, i + concurrency + 1).
ChunkOneMore(b) ==
  { k \in 1..Len(b.inputs) : k > b.i /\ k <= b.i + b.concurrency + 1 }

\* inputs.slice(i, i + concurrency), as the indices of the inputs (from 1).
Chunk(b) ==
  { k \in 1..Len(b.inputs) : k > b.i /\ k <= b.i + b.concurrency }

\* ChunkResolved for Promise.race in place of Promise.all.
ChunkResolvedAny(b) == \E k \in Chunk(b) : b.runs[k].pc = "returned"

\* Promise.all(batch.map(...)) resolves: every promise of the chunk has.
ChunkResolved(b) == \A k \in Chunk(b) : b.runs[k].pc = "returned"

\* Ascending with the largest index first.
RECURSIVE Descending(_)
Descending(S) ==
  IF S = {} THEN <<>>
  ELSE LET m == CHOOSE x \in S : \A y \in S : x >= y
       IN  <<m>> \o Descending(S \ {m})

\* The indices of a set in increasing order.
RECURSIVE Ascending(_)
Ascending(S) ==
  IF S = {} THEN <<>>
  ELSE LET m == CHOOSE x \in S : \A y \in S : x <= y
       IN  <<m>> \o Ascending(S \ {m})

BInit ==
  /\ \E n \in 0..MaxBatch, c \in 1..MaxConcurrency :
       batch = [ pc |-> "loop", inputs |-> BatchInputs(n), concurrency |-> c, i |-> 0,
                 results |-> <<>>,
                 runs |-> [ k \in 1..n |-> NotStarted(BatchInputs(n)[k]) ],
                 chunks |-> <<>>, thrown |-> <<>> ]
  /\ strategy \in Strategies
  /\ pc = "idle"
  /\ input = [ image_buffer |-> Undecodable, image_name |-> <<>> ]
  /\ options = BatchOptions
  /\ clock = 0
  /\ calls = [ generateMask |-> 0, inpaintBackground |-> 0, validateEdit |-> 0 ]
  /\ inflight = {}
  /\ files = {}
  /\ loc = <<>>
  /\ result = <<>>
  /\ q = NoRun
  /\ canvas = NoCanvas

batchOnly == <<pc, input, options, strategy, clock, calls, inflight, loc, result, q, canvas>>

\* Lines 158-162: the loop test holds; the chunk is sliced and processImage is
\* called on each of its inputs.
BatchStartChunk ==
  /\ batch.pc = "loop"
  /\ batch.i < Len(batch.inputs)
  /\ batch' = [batch EXCEPT
                 !.pc     = "awaiting",
                 !.chunks = IF Chunk(batch) = {} THEN @
                            ELSE Append(@, Ascending(Chunk(batch))),
                 !.runs   = [ k \in DOMAIN batch.runs |->
                                IF k \in Chunk(batch)
                                  THEN Started(batch.runs[k], k, clock)
                                  ELSE batch.runs[k] ]]
  /\ UNCHANGED <<batchOnly, files>>

\* Lines 160-165: Promise.all resolves; the results are pushed in input order
\* and i advances.
BatchChunkResolved ==
  /\ batch.pc = "awaiting"
  /\ ChunkResolved(batch)
  /\ batch' = [batch EXCEPT
                 !.pc      = "loop",
                 !.results = @ \o [ j \in 1..Cardinality(Chunk(batch)) |->
                                      batch.runs[Ascending(Chunk(batch))[j]].result ],
                 !.i       = @ + batch.concurrency]
  /\ UNCHANGED <<batchOnly, files>>

\* Line 160: a promise of the chunk rejected, so Promise.all rejects and the
\* await throws out of processBatch; the other runs go on.
BatchChunkRejected ==
  /\ batch.pc = "awaiting"
  /\ \E k \in Chunk(batch) :
       /\ batch.runs[k].pc = "rejected"
       /\ batch' = [batch EXCEPT !.pc = "rejected", !.thrown = batch.runs[k].thrown]
  /\ UNCHANGED <<batchOnly, files>>

\* Lines 158 and 168: the loop test fails; results is returned.
BatchReturn ==
  /\ batch.pc = "loop"
  /\ batch.i >= Len(batch.inputs)
  /\ batch' = [batch EXCEPT !.pc = "returned"]
  /\ UNCHANGED <<batchOnly, files>>

\* The run of input k takes the value r.
SetRun(k, r) == batch' = [batch EXCEPT !.runs[k] = r]

\* Lines 37-48 for a run of the batch.
RunMkdirDone ==
  \E k \in DOMAIN batch.runs :
    LET r == batch.runs[k]
    IN  /\ r.pc = "mkdir"
        /\ \E ok \in BOOLEAN :
             IF ok
               THEN SetRun(k, [r EXCEPT !.baseName = BaseName(r.input.image_name),
                                        !.pc       = "agent1"])
               ELSE SetRun(k, [r EXCEPT !.thrown = <<"EACCES: permission denied, mkdir">>,
                                        !.pc     = "rejected"])
        /\ UNCHANGED <<batchOnly, files>>

\* Lines 48-55.
RunAgent1Done ==
  \E k \in DOMAIN batch.runs :
    LET r == batch.runs[k]
    IN  /\ r.pc = "agent1"
        /\ \E response \in BatchMaskResponses :
             LET maskResult == generateMask(r.input.image_buffer, response)
                 r1         == [r EXCEPT !.maskResult = maskResult]
             IN  IF MaskFailed(maskResult)
                   THEN SetRun(k, RunCaught(r1, <<"Mask generation failed: ",
                                                  maskResult.error>>, clock))
                   ELSE SetRun(k, [r1 EXCEPT
                                     !.maskPath = ArtifactPath("masks", r.baseName, "_mask.png"),
                                     !.pc       = "writeMask"])
        /\ UNCHANGED <<batchOnly, files>>

\* Lines 55-65.
RunWriteMaskDone ==
  \E k \in DOMAIN batch.runs :
    LET r == batch.runs[k]
    IN  /\ r.pc = "writeMask"
        /\ \E ok \in BOOLEAN :
             IF ok
               THEN /\ files' = WriteFile(r.maskPath, r.maskResult.mask_buffer)
                    /\ SetRun(k, [r EXCEPT !.wrote = @ \cup {r.maskPath}, !.pc = "agent2"])
               ELSE /\ SetRun(k, RunCaught(r, WriteError(r.maskPath), clock))
                    /\ UNCHANGED files
        /\ UNCHANGED batchOnly

\* Lines 60-72.
RunAgent2Done ==
  \E k \in DOMAIN batch.runs :
    LET r == batch.runs[k]
    IN  /\ r.pc = "agent2"
        /\ \E env \in BatchInpaintEnvs :
             LET inpaintResult == inpaintBackground(strategy, env)
                 r1            == [r EXCEPT !.inpaintResult = inpaintResult]
             IN  IF InpaintFailed(inpaintResult)
                   THEN SetRun(k, RunCaught(r1, <<"Inpainting failed: ",
                                                  inpaintResult.error>>, clock))
                   ELSE SetRun(k, [r1 EXCEPT
                                     !.editedPath = ArtifactPath("edited", r.baseName, "_edited.jpg"),
                                     !.pc         = "writeEdited"])
        /\ UNCHANGED <<batchOnly, files>>

\* Lines 72-110 and 116-129.
RunWriteEditedDone ==
  \E k \in DOMAIN batch.runs :
    LET r == batch.runs[k]
    IN  /\ r.pc = "writeEdited"
        /\ \E ok \in BOOLEAN :
             IF ~ok
               THEN /\ SetRun(k, RunCaught(r, WriteError(r.editedPath), clock))
                    /\ UNCHANGED files
               ELSE /\ files' = WriteFile(r.editedPath, r.inpaintResult.edited_buffer)
                    /\ IF SkipsQA(BatchOptions)
                         THEN LET qaResult == SkipQAResult(r.imageId, r.maskResult,
                                                           r.inpaintResult, clock)
                              IN  SetRun(k, [r EXCEPT
                                    !.wrote    = @ \cup {r.editedPath},
                                    !.qaResult = qaResult,
                                    !.result   = SuccessResult(r.imageId, r.input.image_name,
                                                               r.editedPath, r.maskPath, <<>>,
                                                               qaResult.forensic_log,
                                                               clock - r.startTime),
                                    !.pc       = "returned"])
                         ELSE SetRun(k, [r EXCEPT !.wrote = @ \cup {r.editedPath},
                                                  !.pc    = "agent3"])
        /\ UNCHANGED batchOnly

\* Lines 100-112.
RunAgent3Done ==
  \E k \in DOMAIN batch.runs :
    LET r   == batch.runs[k]
        run == validateEdit(r.input.image_buffer, QAEditedInput(r.inpaintResult),
                            r.maskResult.mask_buffer, r.imageId,
                            [ agent1_time_ms |-> r.maskResult.generation_time_ms,
                              agent2_time_ms |-> r.inpaintResult.processing_time_ms,
                              smart_prompt   |-> r.inpaintResult.smart_prompt ],
                            clock)
    IN  /\ r.pc = "agent3"
        /\ IF run.pc = "escaped"
             THEN SetRun(k, RunCaught(r, <<run.thrown>>, clock))
             ELSE SetRun(k, [r EXCEPT
                               !.qaResult     = run.result,
                               !.forensicPath = ArtifactPath("logs", r.baseName, "_forensic.json"),
                               !.pc           = "writeForensic"])
        /\ UNCHANGED <<batchOnly, files>>

\* Lines 112-129.
RunWriteForensicDone ==
  \E k \in DOMAIN batch.runs :
    LET r == batch.runs[k]
    IN  /\ r.pc = "writeForensic"
        /\ \E ok \in BOOLEAN :
             IF ok
               THEN /\ files' = WriteFile(r.forensicPath, JSONStringify(r.qaResult.forensic_log))
                    /\ SetRun(k, [r EXCEPT
                                    !.wrote  = @ \cup {r.forensicPath},
                                    !.result = SuccessResult(r.imageId, r.input.image_name,
                                                             r.editedPath, r.maskPath,
                                                             r.forensicPath,
                                                             r.qaResult.forensic_log,
                                                             clock - r.startTime),
                                    !.pc     = "returned"])
               ELSE /\ SetRun(k, RunCaught(r, WriteError(r.forensicPath), clock))
                    /\ UNCHANGED files
        /\ UNCHANGED batchOnly

BNext ==
  \/ BatchStartChunk
  \/ BatchChunkResolved
  \/ BatchChunkRejected
  \/ BatchReturn
  \/ RunMkdirDone
  \/ RunAgent1Done
  \/ RunWriteMaskDone
  \/ RunAgent2Done
  \/ RunWriteEditedDone
  \/ RunAgent3Done
  \/ RunWriteForensicDone

SpecBatch == BInit /\ [][BNext]_vars

\* processBatch called with any concurrency from 0 up.  An awaited promise
\* settles and its continuation runs: the steps are weakly fair.
BAnyInit ==
  /\ \E n \in 0..MaxBatch, c \in 0..MaxConcurrency :
       batch = [ pc |-> "loop", inputs |-> BatchInputs(n), concurrency |-> c, i |-> 0,
                 results |-> <<>>,
                 runs |-> [ k \in 1..n |-> NotStarted(BatchInputs(n)[k]) ],
                 chunks |-> <<>>, thrown |-> <<>> ]
  /\ strategy \in Strategies
  /\ pc = "idle"
  /\ input = [ image_buffer |-> Undecodable, image_name |-> <<>> ]
  /\ options = BatchOptions
  /\ clock = 0
  /\ calls = [ generateMask |-> 0, inpaintBackground |-> 0, validateEdit |-> 0 ]
  /\ inflight = {}
  /\ files = {}
  /\ loc = <<>>
  /\ result = <<>>
  /\ q = NoRun
  /\ canvas = NoCanvas

\* Some processImage run awaits validateEdit: exactly the states in which
\* RunAgent3Done can be taken (it always moves that run on).
Agent3Pending == \E k \in DOMAIN batch.runs : batch.runs[k].pc = "agent3"

\* Weak fairness of every step; for RunAgent3Done it is written out with
\* Agent3Pending in place of the enabling condition.
BatchFairness ==
  /\ WF_vars(BatchStartChunk)
  /\ WF_vars(BatchChunkResolved)
  /\ WF_vars(BatchChunkRejected)
  /\ WF_vars(BatchReturn)
  /\ WF_vars(RunMkdirDone)
  /\ WF_vars(RunAgent1Done)
  /\ WF_vars(RunWriteMaskDone)
  /\ WF_vars(RunAgent2Done)
  /\ WF_vars(RunWriteEditedDone)
  /\ WF_vars(RunWriteForensicDone)
  /\ ([]<>(~Agent3Pending) \/ []<><<RunAgent3Done>>_vars)

SpecBatchLive == BAnyInit /\ [][BNext]_vars /\ BatchFairness

----------------------------------------------------------------------------
(* The canvas computation of inpaintBackground: the adaptive version        *)
(* (analyzeObjectBounds, calculateAdaptiveScale, lines 249-295) and the     *)
(* version that only fits the inpainted image to 2:3 (lines 179-212 of the  *)
(* agent file).  A run is a record holding the locals and the position pc.  *)
(* JavaScript numbers that are not integers are kept as exact fractions.    *)

\* The fraction n / d, d > 0.
Rat(n, d) == [n |-> n, d |-> d]

RatLeq(a, b) == a.n * b.d <= b.n * a.d

RatEq(a, b) == a.n * b.d = b.n * a.d

\* Math.max and Math.min.
RatMax(a, b) == IF RatLeq(a, b) THEN b ELSE a

RatMin(a, b) == IF RatLeq(a, b) THEN a ELSE b

RatMul(a, b) == Rat(a.n * b.n, a.d * b.d)

RatDiv(a, b) == Rat(a.n * b.d, a.d * b.n)

\* Math.round of a fraction that is not negative: floor(a + 1/2).
RoundRat(a) == (2 * a.n + a.d) \div (2 * a.d)

\* 0.85, 1.1 and 2.0.
TARGET_OBJECT_RATIO == Rat(17, 20)

MIN_OUTPAINT_SCALE == Rat(11, 10)

MAX_OUTPAINT_SCALE == Rat(2, 1)

MAX_OUTPAINT_DIMENSION == 2048

VINTED_WIDTH == 1000

VINTED_HEIGHT == 1500

VINTED_RATIO == Rat(VINTED_HEIGHT, VINTED_WIDTH)

\* The locals of the loop of lines 32-44 after the first k pixels of the
\* raster in row-major order: pixel k (from 1) is data[y * width + x].
RECURSIVE ScanMask(_, _)
ScanMask(mask, k) ==
  IF k = 0
    THEN [ minX |-> mask.width, minY |-> mask.height, maxX |-> 0, maxY |-> 0,
           objectPixels |-> 0 ]
    ELSE LET s == ScanMask(mask, k - 1)
             x == (k - 1) % mask.width
             y == (k - 1) \div mask.width
         IN  IF mask.data[k] < 128
               THEN [ minX |-> IF x < s.minX THEN x ELSE s.minX,
                      minY |-> IF y < s.minY THEN y ELSE s.minY,
                      maxX |-> IF x > s.maxX THEN x ELSE s.maxX,
                      maxY |-> IF y > s.maxY THEN y ELSE s.maxY,
                      objectPixels |-> s.objectPixels + 1 ]
               ELSE s

\* analyzeObjectBounds with the box one short in each direction
\* (maxX - minX for maxX - minX + 1).
analyzeObjectBoundsOpenBox(mask) ==
  LET s == ScanMask(mask, mask.width * mask.height)
  IN  IF s.maxX < s.minX \/ s.maxY < s.minY
        THEN [ bbox        |-> [x |-> 0, y |-> 0, width |-> mask.width, height |-> mask.height],
               objectRatio |-> Rat(1, 1),
               imageWidth  |-> mask.width,
               imageHeight |-> mask.height ]
        ELSE LET bboxWidth  == s.maxX - s.minX
                 bboxHeight == s.maxY - s.minY
             IN  [ bbox        |-> [x |-> s.minX, y |-> s.minY,
                                    width |-> bboxWidth, height |-> bboxHeight],
                   objectRatio |-> RatMax(Rat(bboxWidth, mask.width),
                                          Rat(bboxHeight, mask.height)),
                   imageWidth  |-> mask.width,
                   imageHeight |-> mask.height ]

\* analyzeObjectBounds (lines 17-68) on the decoded grayscale raster.
analyzeObjectBounds(mask) ==
  LET s == ScanMask(mask, mask.width * mask.height)
  IN  IF s.maxX < s.minX \/ s.maxY < s.minY
        THEN [ bbox        |-> [x |-> 0, y |-> 0, width |-> mask.width, height |-> mask.height],
               objectRatio |-> Rat(1, 1),
               imageWidth  |-> mask.width,
               imageHeight |-> mask.height ]
        ELSE LET bboxWidth  == s.maxX - s.minX + 1
                 bboxHeight == s.maxY - s.minY + 1
             IN  [ bbox        |-> [x |-> s.minX, y |-> s.minY,
                                    width |-> bboxWidth, height |-> bboxHeight],
                   objectRatio |-> RatMax(Rat(bboxWidth, mask.width),
                                          Rat(bboxHeight, mask.height)),
                   imageWidth  |-> mask.width,
                   imageHeight |-> mask.height ]

\* calculateAdaptiveScale without the inversion: the clamp is applied to
\* neededScale itself.
calculateAdaptiveScaleDirect(currentObjectRatio) ==
  LET neededScale == RatDiv(currentObjectRatio, TARGET_OBJECT_RATIO)
  IN  RatMax(MIN_OUTPAINT_SCALE, RatMin(MAX_OUTPAINT_SCALE, neededScale))

\* calculateAdaptiveScale (lines 71-80), for a ratio above 0.
calculateAdaptiveScale(currentObjectRatio) ==
  LET neededScale == RatDiv(currentObjectRatio, TARGET_OBJECT_RATIO)
  IN  RatMax(MIN_OUTPAINT_SCALE,
             RatMin(MAX_OUTPAINT_SCALE, RatDiv(Rat(1, 1), neededScale)))

Max(a, b) == IF a > b THEN a ELSE b

\* Lines 264-279: the inpainted image is shrunk when its longer side times
\* the adaptive scale exceeds the limit.
LimitAdaptive(origWidth, origHeight, adaptiveScale) ==
  LET maxDim       == Max(origWidth, origHeight)
      scaledMaxDim == RatMul(Rat(maxDim, 1), adaptiveScale)
      resizeScale  == RatDiv(Rat(MAX_OUTPAINT_DIMENSION, 1), scaledMaxDim)
  IN  IF ~RatLeq(scaledMaxDim, Rat(MAX_OUTPAINT_DIMENSION, 1))
        THEN [ origWidth  |-> RoundRat(RatMul(Rat(origWidth, 1), resizeScale)),
               origHeight |-> RoundRat(RatMul(Rat(origHeight, 1), resizeScale)) ]
        ELSE [ origWidth |-> origWidth, origHeight |-> origHeight ]

\* Lines 186-198 of the agent file: the inpainted image is shrunk when its
\* longer side exceeds the limit.
LimitPlain(origWidth, origHeight) ==
  LET maxDim == Max(origWidth, origHeight)
      scale  == Rat(MAX_OUTPAINT_DIMENSION, maxDim)
  IN  IF maxDim > MAX_OUTPAINT_DIMENSION
        THEN [ origWidth  |-> RoundRat(RatMul(Rat(origWidth, 1), scale)),
               origHeight |-> RoundRat(RatMul(Rat(origHeight, 1), scale)) ]
        ELSE [ origWidth |-> origWidth, origHeight |-> origHeight ]

\* FitVinted with the branches exchanged: the longer side is cut down.
FitVintedShrinks(newWidth, newHeight) ==
  IF 2 * newHeight < 3 * newWidth
    THEN [ newWidth  |-> RoundRat(RatDiv(Rat(newHeight, 1), VINTED_RATIO)),
           newHeight |-> newHeight ]
    ELSE IF 2 * newHeight > 3 * newWidth
      THEN [ newWidth  |-> newWidth,
             newHeight |-> RoundRat(RatMul(Rat(newWidth, 1), VINTED_RATIO)) ]
      ELSE [ newWidth |-> newWidth, newHeight |-> newHeight ]

\* Lines 287-295, and 204-212 of the agent file: currentRatio is
\* newHeight / newWidth, compared with 1.5 (Infinity for a width of 0, NaN
\* for 0 / 0).
FitVinted(newWidth, newHeight) ==
  IF 2 * newHeight < 3 * newWidth
    THEN [ newWidth  |-> newWidth,
           newHeight |-> RoundRat(RatMul(Rat(newWidth, 1), VINTED_RATIO)) ]
    ELSE IF 2 * newHeight > 3 * newWidth
      THEN [ newWidth  |-> RoundRat(RatDiv(Rat(newHeight, 1), VINTED_RATIO)),
             newHeight |-> newHeight ]
      ELSE [ newWidth |-> newWidth, newHeight |-> newHeight ]

\* The sizes metadata() can report for the inpainted image.
ImageSides == { 1, 2, 3, 1000, 1500, 2048, 3000 }

\* Every variable but canvas.
canvasOuter == <<pc, input, options, strategy, clock, calls, inflight, files, loc, result, q, batch>>

\* Line 251: analyzeObjectBounds settles.
AnalyzeDone ==
  /\ canvas.pc = "analyze"
  /\ canvas' = [canvas EXCEPT !.analysis = analyzeObjectBounds(canvas.mask),
                              !.pc       = "scale"]
  /\ UNCHANGED canvasOuter

\* Line 256.
ScaleDone ==
  /\ canvas.pc = "scale"
  /\ canvas' = [canvas EXCEPT
                  !.adaptiveScale = calculateAdaptiveScale(canvas.analysis.objectRatio),
                  !.pc            = "limit"]
  /\ UNCHANGED canvasOuter

\* Lines 259-279, and 180-198 of the agent file: metadata() settles with
\* the size of the inpainted image, which is shrunk if the limit asks for it.
LimitDone ==
  /\ canvas.pc = "limit"
  /\ \E width \in ImageSides, height \in ImageSides :
       LET limited == IF canvas.adaptive
                        THEN LimitAdaptive(width, height, canvas.adaptiveScale)
                        ELSE LimitPlain(width, height)
       IN  canvas' = [canvas EXCEPT !.origWidth  = limited.origWidth,
                                    !.origHeight = limited.origHeight,
                                    !.pc         = "extend"]
  /\ UNCHANGED canvasOuter

\* Lines 284-285, and 202-203 of the agent file.
ExtendDone ==
  /\ canvas.pc = "extend"
  /\ LET newWidth  == IF canvas.adaptive
                        THEN RoundRat(RatMul(Rat(canvas.origWidth, 1), canvas.adaptiveScale))
                        ELSE canvas.origWidth
         newHeight == IF canvas.adaptive
                        THEN RoundRat(RatMul(Rat(canvas.origHeight, 1), canvas.adaptiveScale))
                        ELSE canvas.origHeight
     IN  canvas' = [canvas EXCEPT !.scaledWidth  = newWidth,
                                  !.scaledHeight = newHeight,
                                  !.newWidth     = newWidth,
                                  !.newHeight    = newHeight,
                                  !.pc           = "fit"]
  /\ UNCHANGED canvasOuter

\* Lines 287-295, and 204-212 of the agent file.
FitDone ==
  /\ canvas.pc = "fit"
  /\ LET fitted == FitVinted(canvas.newWidth, canvas.newHeight)
     IN  canvas' = [canvas EXCEPT !.newWidth  = fitted.newWidth,
                                  !.newHeight = fitted.newHeight,
                                  !.pc        = "done"]
  /\ UNCHANGED canvasOuter

\* Largest side of a mask raster.
MaxMaskSide == 3

\* The decoded masks of width w and height h: every raster over the two
\* levels at the threshold.
Masks(w, h) ==
  { [ width |-> w, height |-> h, data |-> d ] : d \in [ 1..(w * h) -> MaskPalette ] }

\* The state outside the canvas computation.
CanvasOnly ==
  /\ pc = "idle"
  /\ input = [ image_buffer |-> Undecodable, image_name |-> <<>> ]
  /\ options = [ skipQA |-> FALSE ]
  /\ strategy = "outpaint"
  /\ clock = 0
  /\ calls = [ generateMask |-> 0, inpaintBackground |-> 1, validateEdit |-> 0 ]
  /\ inflight = {}
  /\ files = {}
  /\ loc = <<>>
  /\ result = <<>>
  /\ q = NoRun
  /\ batch = NoBatch

BoundsInit ==
  /\ \E w \in 1..MaxMaskSide, h \in 1..MaxMaskSide : \E mask \in Masks(w, h) :
       canvas = [NoCanvas EXCEPT !.pc = "analyze", !.adaptive = TRUE, !.mask = mask]
  /\ CanvasOnly

BoundsNext ==
  \/ AnalyzeDone
  \/ ScaleDone

SpecBounds == BoundsInit /\ [][BoundsNext]_vars

\* Largest side of the square masks of SpecCanvas.
MaxDen == 4

\* The d x d mask whose subject is the first n pixels of the first row:
\* its object ratio is n / d.
RowMask(n, d) ==
  [ width |-> d, height |-> d,
    data  |-> [ i \in 1..(d * d) |-> IF i <= n THEN 0 ELSE 255 ] ]

CanvasInit ==
  /\ \/ \E d \in 1..MaxDen : \E n \in 1..d :
          canvas = [NoCanvas EXCEPT !.pc = "analyze", !.adaptive = TRUE,
                                    !.mask = RowMask(n, d)]
     \/ canvas = [NoCanvas EXCEPT !.pc = "limit"]
  /\ CanvasOnly

CanvasNext ==
  \/ AnalyzeDone
  \/ ScaleDone
  \/ LimitDone
  \/ ExtendDone
  \/ FitDone

SpecCanvas == CanvasInit /\ [][CanvasNext]_vars

----------------------------------------------------------------------------
(* Properties of processImage (checked under Spec)                         *)

Returned == pc = "returned"

MaskReportedFailure == loc.maskResult # <<>> /\ ~loc.maskResult.success

InpaintReportedFailure == loc.inpaintResult # <<>> /\ ~loc.inpaintResult.success

Written(path) == \E f \in files : f.path = path

ArtifactsIn(dir) == { f \in files : f.path[2] = dir }

\* Stage 1 / Stage 2 ran to its end: the agent reported success and the
\* stage's artifact was persisted.
Stage1Succeeded ==
  /\ loc.maskResult # <<>>
  /\ loc.maskResult.success
  /\ Written(loc.maskPath)

Stage2Succeeded ==
  /\ Stage1Succeeded
  /\ loc.inpaintResult # <<>>
  /\ loc.inpaintResult.success
  /\ Written(loc.editedPath)

\* C1: when generateMask reports success=false the run returns success=false
\* with an error naming the mask stage and carrying the agent's message,
\* inpaintBackground and validateEdit are never called, and no edited image
\* or forensic log is written.
C1_MaskFailureAborts ==
  MaskReportedFailure =>
    /\ Returned
    /\ result.success = FALSE
    /\ result.error = <<"Mask generation failed: ", loc.maskResult.error>>
    /\ calls.inpaintBackground = 0
    /\ calls.validateEdit = 0
    /\ ArtifactsIn("edited") = {}
    /\ ArtifactsIn("logs") = {}

C1_Witness ==
  /\ Returned
  /\ MaskReportedFailure
  /\ loc.maskResult.error = "No candidates in Gemini response"
  /\ result.success = FALSE

\* C2: inpaintBackground is called only after generateMask has settled with
\* success, validateEdit only after inpaintBackground has settled with
\* success, and at most one agent is pending at any time.
C2_StagesInOrder ==
  /\ calls.inpaintBackground > 0 =>
       /\ loc.maskResult # <<>>
       /\ loc.maskResult.success
       /\ "agent1" \notin inflight
  /\ calls.validateEdit > 0 =>
       /\ loc.inpaintResult # <<>>
       /\ loc.inpaintResult.success
       /\ "agent2" \notin inflight
  /\ Cardinality(inflight) <= 1

C2_Witness ==
  /\ pc = "agent3"
  /\ inflight = {"agent3"}
  /\ calls = [ generateMask |-> 1, inpaintBackground |-> 1, validateEdit |-> 1 ]

\* C3: the promise of processImage never rejects.
C3_NeverRejects == pc # "rejected"

\* The run reached line 116: all stages ran and every artifact was written.
RanToCompletion ==
  /\ Returned
  /\ Stage2Succeeded
  /\ loc.qaResult # <<>>
  /\ SkipsQA(options) \/ Written(loc.forensicPath)

\* C4: a run that went through all its stages returns success=true, whether
\* the validator said pass, said fail, or returned its failure outcome
\* (success=false, ssim_score -1).
C4_SuccessWhateverTheVerdict ==
  RanToCompletion =>
    /\ result.success = TRUE
    /\ result.forensic_log = loc.qaResult.forensic_log

C4_Witness ==
  /\ RanToCompletion
  /\ ~options.skipQA
  /\ result.success = TRUE
  /\ loc.qaResult.success = FALSE
  /\ result.forensic_log.qa_output.ssim_score = Num(-1000)
  /\ result.forensic_log.qa_output.qa_status = "fail"

\* C5: a run in which the write of an artifact failed still returns
\* success=true.
C5_WriteFailureIsNotFatal ==
  (Returned /\ loc.writeFailed # <<>>) => result.success = TRUE

\* C6: when inpaintBackground reports success=false the run returns
\* success=false with the stage's message, validateEdit is never called, no
\* edited image or forensic log is written, and the mask file written by
\* Stage 1 is still there.
C6_InpaintFailureAborts ==
  InpaintReportedFailure =>
    /\ Returned
    /\ result.success = FALSE
    /\ result.error = <<"Inpainting failed: ", loc.inpaintResult.error>>
    /\ calls.validateEdit = 0
    /\ ArtifactsIn("edited") = {}
    /\ ArtifactsIn("logs") = {}
    /\ [path |-> loc.maskPath, data |-> loc.maskResult.mask_buffer] \in files

C6_Witness ==
  /\ Returned
  /\ InpaintReportedFailure
  /\ loc.inpaintResult.error = "No predictions from outpainting"
  /\ Written(loc.maskPath)

\* C7: every returned PipelineResult has all its required fields and a
\* forensic_log with every field of ForensicLog.
C7_ResultIsComplete ==
  Returned =>
    /\ PipelineResultFields \subseteq DOMAIN result
    /\ IsForensicLog(result.forensic_log)

\* C8: with skipQA set, once Stages 1 and 2 have succeeded the returned log
\* says qa_status 'skipped', ssim_score 1 and vinted_safe true.
C8_SkipStub ==
  (Returned /\ options.skipQA /\ Stage2Succeeded) =>
    /\ result.forensic_log.qa_output.qa_status = "skipped"
    /\ result.forensic_log.qa_output.ssim_score = Num(1000)
    /\ result.forensic_log.vinted_safe = TRUE

C8_Witness ==
  /\ Returned
  /\ options.skipQA
  /\ Stage2Succeeded
  /\ ~loc.inpaintResult.inpainted_buffer.dec
  /\ result.forensic_log.qa_output.qa_status = "skipped"

\* C9: with skipQA set validateEdit is never called, no forensic log is
\* written and the returned forensic_path is empty; without it, once Stages 1
\* and 2 have succeeded validateEdit has been called exactly once, and the
\* run that returns success has its log, serialized, at its own path.
C9_ValidatorRunsUnlessSkipped ==
  /\ options.skipQA =>
       /\ calls.validateEdit = 0
       /\ ArtifactsIn("logs") = {}
       /\ Returned => result.forensic_path = <<>>
  /\ (~options.skipQA /\ Stage2Succeeded) => calls.validateEdit = 1
  /\ (~options.skipQA /\ Returned /\ result.success) =>
       /\ result.forensic_path = ArtifactPath("logs", loc.baseName, "_forensic.json")
       /\ ArtifactsIn("logs") =
            { [ path |-> result.forensic_path,
                data |-> JSONStringify(result.forensic_log) ] }

C9_Witness ==
  /\ Returned
  /\ ~options.skipQA
  /\ result.success
  /\ calls.validateEdit = 1
  /\ Written(result.forensic_path)

\* C18 as stated: each agent is called at most once in a run, and a run in
\* which any remote call failed returns success=false.
C18_AnyRemoteFailureIsTerminal ==
  /\ \A a \in DOMAIN calls : calls[a] <= 1
  /\ (Returned /\ loc.remoteFailed # {}) => result.success = FALSE

\* The remote calls whose failure makes their agent report success=false.
StageCalls == { "mask", "inpaint", "outpaint" }

\* C18, amended: each agent is called at most once in a run; a run in which
\* the mask, inpainting or outpainting call failed has returned success=false
\* with that stage's error and has called no later agent; a failed
\* smart-prompt call is not terminal by itself.
C18_NoRetryStageFailureIsTerminal ==
  /\ \A a \in DOMAIN calls : calls[a] <= 1
  /\ loc.remoteFailed \cap StageCalls # {} =>
       /\ Returned
       /\ result.success = FALSE
       /\ "error" \in DOMAIN result
       /\ calls.validateEdit = 0
       /\ "mask" \in loc.remoteFailed => calls.inpaintBackground = 0
  /\ (Returned /\ result.success) => loc.remoteFailed \subseteq {"prompt"}

C18_Witness ==
  /\ Returned
  /\ loc.remoteFailed = {"prompt", "outpaint"}
  /\ result.success = FALSE
  /\ calls = [ generateMask |-> 1, inpaintBackground |-> 1, validateEdit |-> 0 ]


----------------------------------------------------------------------------
(* Properties of validateEdit (checked under SpecQA)                       *)

\* C10: no throw leaves validateEdit: a run is at a statement of the body or
\* of the catch clause until it returns, and what it returns has every
\* required field of QAResult and a forensic log with every field of
\* ForensicLog.
C10_ValidatorAlwaysReturns ==
  /\ q.pc # "escaped"
  /\ q.pc # "returned" => QStep(q) # q
  /\ q.pc = "returned" =>
       /\ QAResultFields \subseteq DOMAIN q.result
       /\ IsForensicLog(q.result.forensic_log)

C10_Witness ==
  /\ q.pc = "returned"
  /\ q.originalBuffer.dec
  /\ ~q.editedBuffer.dec
  /\ q.result.success = FALSE
  /\ IsForensicLog(q.result.forensic_log)

\* C11: when a step of validateEdit throws, the outcome has success=false
\* and the thrown message as error, and its log has qa_status 'fail', the
\* three hashes empty, ssim_score -1, pixel_delta_percent -1, vinted_safe
\* false and an audit trail whose last entry is the error line carrying the
\* thrown message.
C11_FailureOutcome ==
  (q.pc = "returned" /\ q.thrown # "") =>
    /\ q.result.success = FALSE
    /\ q.result.error = q.thrown
    /\ q.result.qa_status = "fail"
    /\ q.result.pixel_delta_percent = Num(-100)
    /\ LET log == q.result.forensic_log
       IN  /\ log.qa_output.qa_status = "fail"
           /\ log.original_hash = <<>>
           /\ log.edited_hash = <<>>
           /\ log.mask_hash = <<>>
           /\ log.qa_output.ssim_score = Num(-1000)
           /\ log.qa_output.pixel_delta_percent = Num(-100)
           /\ log.vinted_safe = FALSE
           /\ log.audit_trail # <<>>
           /\ log.audit_trail[Len(log.audit_trail)] = <<"ERROR: ", q.thrown>>

C11_Witness ==
  /\ q.pc = "returned"
  /\ q.thrown = UnsupportedFormat
  /\ q.originalHash # <<>>
  /\ Len(q.result.forensic_log.audit_trail) = 2
  /\ q.result.forensic_log.edited_hash = <<>>

\* The mask selects no pixel: both subject arrays of the run are empty.
EmptySubject ==
  /\ q.pc = "returned"
  /\ q.thrown = ""
  /\ q.subjectOriginal = <<>>

\* C12: when no mask pixel is below 128, validateEdit returns its failure
\* outcome (success=false, an error message, both scores -1) and neither
\* score is NaN.
C12_EmptySubjectIsFailure ==
  EmptySubject =>
    /\ q.result.success = FALSE
    /\ "error" \in DOMAIN q.result
    /\ q.result.forensic_log.qa_output.ssim_score = Num(-1000)
    /\ q.result.forensic_log.qa_output.pixel_delta_percent = Num(-100)

----------------------------------------------------------------------------
(* Properties of the verdict (checked under SpecVerdict)                   *)

\* score >= 0.92, stated on the exact fraction: 23 * q <= 25 * p.
AtLeastThreshold(x) ==
  /\ ~x.nan
  /\ ~x.neg
  /\ BigLeq(BigMul(ToBig(23), x.q), BigMul(ToBig(25), x.p))

\* C13: the verdict is 'pass' exactly when the computed SSIM is at least
\* 0.92 and 'fail' otherwise; a score of exactly 0.92 passes.  The verdict is
\* the one returned and the one written in the log.
C13_PassIffAtLeastThreshold ==
  /\ q.pc \in {"assemble", "returned"} =>
       /\ q.qaStatus \in {"pass", "fail"}
       /\ (q.qaStatus = "pass") <=> AtLeastThreshold(q.ssim)
  /\ q.pc = "returned" =>
       /\ q.result.qa_status = q.qaStatus
       /\ q.result.forensic_log.qa_output.qa_status = q.qaStatus

C13_Witness ==
  /\ q.pc = "returned"
  /\ q.ssim = Fraction(FALSE, ToBig(23), ToBig(25))
  /\ q.result.qa_status = "pass"
  /\ q.result.forensic_log.qa_output.ssim_score = Num(920)

\* The verdict fields of a finished run.
VerdictOf(r) ==
  [ qa_status         |-> r.result.qa_status,
    log_qa_status     |-> r.result.forensic_log.qa_output.qa_status,
    subject_integrity |-> r.result.forensic_log.qa_output.subject_integrity,
    recommendation    |-> r.result.forensic_log.qa_output.recommendation,
    vinted_safe       |-> r.result.forensic_log.vinted_safe ]

----------------------------------------------------------------------------
(* Properties of repeated calls (checked under SpecRepeat)                 *)

\* The three values the claim compares.
Scores(res) ==
  [ ssim_score          |-> res.forensic_log.qa_output.ssim_score,
    pixel_delta_percent |-> res.pixel_delta_percent,
    qa_status           |-> res.qa_status ]

----------------------------------------------------------------------------
(* Properties of processBatch (checked under SpecBatch)                    *)

\* The number (from 0) of the chunk input k belongs to.
ChunkOf(k) == (k - 1) \div batch.concurrency

\* The processImage calls that have been made and have not settled.
InFlight ==
  { k \in DOMAIN batch.runs : batch.runs[k].pc \notin {"notStarted", "returned", "rejected"} }

\* C14: when a processImage call of a chunk has been made, every call of
\* every earlier chunk has resolved, with success or with failure.
C14_ChunksInSequence ==
  \A j \in DOMAIN batch.runs, k \in DOMAIN batch.runs :
    (batch.runs[k].pc # "notStarted" /\ ChunkOf(j) < ChunkOf(k)) =>
      /\ batch.runs[j].pc = "returned"
      /\ batch.runs[j].result.success \in BOOLEAN

C14_Witness ==
  /\ Len(batch.inputs) = 3
  /\ batch.concurrency = 2
  /\ batch.runs[3].pc = "mkdir"
  /\ batch.runs[1].pc = "returned"
  /\ batch.runs[1].result.success = FALSE
  /\ batch.runs[2].pc = "returned"
  /\ batch.runs[2].result.success = TRUE

\* The consecutive chunks of n inputs: ceil(n / c) of them, each of c inputs
\* but for a shorter last one.
ExpectedChunks(n, c) ==
  [ j \in 1..((n + c - 1) \div c) |->
      [ m \in 1..(IF n - (j - 1) * c < c THEN n - (j - 1) * c ELSE c) |->
          (j - 1) * c + m ] ]

\* C15: the chunks processBatch issues are, in order, the consecutive chunks
\* of its inputs (all of them once it returns), and never more than
\* `concurrency` processImage calls are in flight.
C15_Chunking ==
  LET expected == ExpectedChunks(Len(batch.inputs), batch.concurrency)
  IN  /\ Len(batch.chunks) <= Len(expected)
      /\ \A j \in 1..Len(batch.chunks) : batch.chunks[j] = expected[j]
      /\ batch.pc = "returned" => batch.chunks = expected
      /\ Cardinality(InFlight) <= batch.concurrency

C15_Witness ==
  /\ batch.pc = "returned"
  /\ Len(batch.inputs) = 3
  /\ batch.concurrency = 2
  /\ batch.chunks = << <<1, 2>>, <<3>> >>
  /\ Len(batch.results) = 3

\* C16: whatever fault a run hits, processBatch does not reject, and what it
\* returns holds for every input the result of that input's own run.
C16_FailureIsIsolated ==
  /\ batch.pc # "rejected"
  /\ batch.pc = "returned" =>
       /\ Len(batch.results) = Len(batch.inputs)
       /\ \A k \in DOMAIN batch.runs : batch.results[k] = batch.runs[k].result

\* C17: two runs of the same chunk whose inputs have different file names
\* have written no path in common.
C17_DistinctNamesDistinctPaths ==
  \A j \in DOMAIN batch.runs, k \in DOMAIN batch.runs :
    ( /\ j # k
      /\ ChunkOf(j) = ChunkOf(k)
      /\ batch.runs[j].input.image_name # batch.runs[k].input.image_name ) =>
      batch.runs[j].wrote \cap batch.runs[k].wrote = {}

----------------------------------------------------------------------------
(* Properties of the score and of the log (checked under SpecQA and Spec)  *)

\* C21: for a non-empty subject, the ssim_score of the log validateEdit
\* returns is -1 or lies between 0 and 1.
C21_ScoreInRange ==
  (q.pc = "returned" /\ q.subjectOriginal # <<>>) =>
    LET s == q.result.forensic_log.qa_output.ssim_score
    IN  \/ s = Num(-1000)
        \/ ~s.nan /\ s.v >= 0 /\ s.v <= 1000

\* The run computed its score from two equal, non-empty subject arrays.
ScoredIdentical ==
  /\ q.pc \in {"delta", "verdict", "assemble", "returned"}
  /\ q.thrown = ""
  /\ q.subjectOriginal # <<>>
  /\ q.subjectOriginal = q.subjectEdited

\* C22: calculateSSIM(X, X) is exactly 1 for every non-empty X: the score
\* of two equal subject arrays is the fraction p/q with p = q, not negative
\* and not NaN.
C22_IdenticalScoresOne ==
  ScoredIdentical =>
    /\ ~q.ssim.nan
    /\ ~q.ssim.neg
    /\ q.ssim.p = q.ssim.q

C22_Witness ==
  /\ ScoredIdentical
  /\ q.subjectOriginal = <<100, 110>>
  /\ q.ssim.p = q.ssim.q

\* C23: the forensic log handed to writeFile reads back from its serialized
\* form as the same value, numeric qa_output fields included.
C23_LogRoundTrips ==
  (pc \in {"writeForensic", "returned"} /\ loc.qaResult # <<>>) =>
    JSONParse(JSONStringify(loc.qaResult.forensic_log)) = loc.qaResult.forensic_log

\* The subject loop of the run has completed.
SubjectExtracted ==
  /\ q.pc \in {"ssim", "delta", "verdict", "assemble", "returned"}
  /\ q.thrown = ""

\* The indices of the mask pixels below 128, in increasing order.
SubjectIndices == Ascending({i \in 1..Len(q.maskRaw) : q.maskRaw[i] < 128})

\* C24: the subject arrays hold, in index order, the pixels of the original
\* and of the edited image at exactly the indices where the mask is below
\* 128; both have as many entries as the mask has such pixels.
C24_SubjectExtraction ==
  SubjectExtracted =>
    /\ Len(q.subjectOriginal) = Cardinality({i \in 1..Len(q.maskRaw) : q.maskRaw[i] < 128})
    /\ Len(q.subjectEdited) = Len(q.subjectOriginal)
    /\ q.subjectOriginal = [j \in 1..Len(SubjectIndices) |-> q.origGray[SubjectIndices[j]]]
    /\ q.subjectEdited = [j \in 1..Len(SubjectIndices) |-> q.editGray[SubjectIndices[j]]]

C24_Witness ==
  /\ SubjectExtracted
  /\ q.maskRaw = <<128, 127>>
  /\ q.origGray = <<100, 110>>
  /\ q.editGray = <<110, 0>>
  /\ q.subjectOriginal = <<110>>
  /\ q.subjectEdited = <<0>>

\* C25: in cents, cost_estimate is 4 + 8 = 12 on every successful run,
\* whatever skipQA and the verdict are, and 0 on every failed run, whatever
\* stages had completed.
C25_CostIsStatic ==
  Returned =>
    IF result.success
      THEN /\ result.cost_estimate = COST_IMAGEN_MASK + COST_IMAGEN_INPAINT
           /\ result.cost_estimate = 12
      ELSE result.cost_estimate = 0

\* A run that fails on the forensic-log write, after both remote stages and
\* the validation have completed.
C25_Witness ==
  /\ Returned
  /\ ~result.success
  /\ Stage1Succeeded
  /\ Stage2Succeeded
  /\ loc.qaResult # <<>>
  /\ result.cost_estimate = 0

\* C26: validateEdit is called on the input image, on the mask Stage 1
\* returned and on the image the inpainting call answered with, which under
\* the outpainting strategy is not the final image of Stage 2.
C26_ValidatorInputs ==
  q # NoRun =>
    /\ q.originalBuffer = input.image_buffer
    /\ q.maskBuffer = loc.maskResult.mask_buffer
    /\ q.editedBuffer = loc.inpainted

C26_Witness ==
  /\ q # NoRun
  /\ strategy = "outpaint"
  /\ q.editedBuffer = loc.inpainted
  /\ loc.inpaintResult.edited_buffer # loc.inpainted
  /\ q.pc = "returned"

\* The first part of the line each step pushes, in the order of the steps.
StepLines ==
  << {"Hashes generated for all images"}, {"Pixel data extracted for SSIM analysis"},
     {"Subject area: "}, {"SSIM (subject area): "}, {"Pixel delta (reference): "},
     {"QA PASS: SSIM ", "QA FAIL: SSIM "} >>

\* The number of pushing steps a run at position p has completed; a run in
\* the catch clause was thrown there by metadata() or by the raw extraction,
\* after the hashes only.
StepsCompleted(p) ==
  CASE p = "hashes"   -> 0
    [] p = "metadata" -> 1
    [] p = "extract"  -> 1
    [] p = "catch"    -> 1
    [] p = "subject"  -> 2
    [] p = "ssim"     -> 3
    [] p = "delta"    -> 4
    [] p = "verdict"  -> 5
    [] OTHER          -> 6

\* trail is the lines of the first k steps, in step order.
FirstSteps(trail, k) ==
  /\ Len(trail) = k
  /\ \A i \in 1..k : trail[i][1] \in StepLines[i]

\* C27: at every position of validateEdit the trail holds one line per
\* completed step, in step order; the log of a run that ran through has the
\* six lines, and the log of a run in which a step threw has the lines of
\* the steps completed before the fault followed by the error line.
C27_TrailIsChronological ==
  /\ q.pc \notin {"returned", "escaped"} => FirstSteps(q.auditTrail, StepsCompleted(q.pc))
  /\ (q.pc = "returned" /\ q.thrown = "") =>
       FirstSteps(q.result.forensic_log.audit_trail, 6)
  /\ (q.pc = "returned" /\ q.thrown # "") =>
       LET trail == q.result.forensic_log.audit_trail
       IN  /\ Len(trail) = 2
           /\ FirstSteps(SubSeq(trail, 1, 1), 1)
           /\ trail[2] = <<"ERROR: ", q.thrown>>

C27_Witness ==
  /\ q.pc = "returned"
  /\ q.thrown = ""
  /\ Len(q.result.forensic_log.audit_trail) = 6
  /\ q.result.forensic_log.audit_trail[2] = <<"Pixel data extracted for SSIM analysis">>
  /\ q.result.forensic_log.audit_trail[6][1] = "QA FAIL: SSIM "

----------------------------------------------------------------------------
(* Properties of the canvas computation (checked under SpecCanvas and      *)
(* SpecBounds)                                                             *)

\* The adaptive scale of the run has been computed.
Scaled ==
  /\ canvas.adaptive
  /\ canvas.pc \in {"limit", "extend", "fit", "done"}

\* C28: the adaptive scale is 0.85 divided by the object ratio when that
\* quotient lies between 1.1 and 2.0, 1.1 when it lies below and 2.0 when
\* it lies above; it is never below 1.1 and never above 2.0.
C28_AdaptiveScaleClamped ==
  Scaled =>
    LET ratio    == canvas.analysis.objectRatio
        quotient == Rat(17 * ratio.d, 20 * ratio.n)
        scale    == canvas.adaptiveScale
    IN  /\ RatLeq(Rat(11, 10), scale)
        /\ RatLeq(scale, Rat(2, 1))
        /\ IF ~RatLeq(Rat(11, 10), quotient) THEN RatEq(scale, Rat(11, 10))
           ELSE IF ~RatLeq(quotient, Rat(2, 1)) THEN RatEq(scale, Rat(2, 1))
           ELSE RatEq(scale, quotient)

\* An object half as wide as the frame: the scale is 1.7, inside the clamp.
C28_Witness ==
  /\ Scaled
  /\ RatEq(canvas.analysis.objectRatio, Rat(1, 2))
  /\ RatEq(canvas.adaptiveScale, Rat(17, 10))

\* C29: the 2:3 fit enlarges at most one of width and height and shrinks
\* neither, and the fitted canvas has 2 * height within 1 of 3 * width
\* (height / width is 1.5 up to the rounding of the adjusted side).
C29_FitExtendsOneSide ==
  canvas.pc = "done" =>
    /\ canvas.newWidth >= canvas.scaledWidth
    /\ canvas.newHeight >= canvas.scaledHeight
    /\ canvas.newWidth = canvas.scaledWidth \/ canvas.newHeight = canvas.scaledHeight
    /\ Abs(3 * canvas.newWidth - 2 * canvas.newHeight) <= 1

\* A 1000 x 1000 image under the adaptive scale 1.7: the 1700 x 1700 canvas
\* becomes 1700 x 2550.
C29_Witness ==
  /\ canvas.pc = "done"
  /\ canvas.adaptive
  /\ canvas.scaledWidth = 1700
  /\ canvas.scaledHeight = 1700
  /\ canvas.newWidth = 1700
  /\ canvas.newHeight = 2550

\* The coordinates (x, y), from 0, of the mask pixels below 128.
SubjectCoordinates(mask) ==
  { c \in (0..(mask.width - 1)) \X (0..(mask.height - 1)) :
      mask.data[c[2] * mask.width + c[1] + 1] < 128 }

\* C30: for a mask with a pixel below 128, the box analyzeObjectBounds
\* returns contains every such pixel and has one on each of its four sides,
\* and the object ratio is the larger of box width / width and box height /
\* height; for a mask with no such pixel the box is the full frame
\* {0, 0, width, height} and the ratio is 1.
C30_MinimalBox ==
  canvas.pc \in {"scale", "limit"} =>
    LET mask    == canvas.mask
        subject == SubjectCoordinates(mask)
        box     == canvas.analysis.bbox
        right   == box.x + box.width - 1
        bottom  == box.y + box.height - 1
    IN  IF subject = {}
          THEN /\ box = [x |-> 0, y |-> 0, width |-> mask.width, height |-> mask.height]
               /\ canvas.analysis.objectRatio = Rat(1, 1)
          ELSE /\ \A c \in subject : /\ box.x <= c[1] /\ c[1] <= right
                                     /\ box.y <= c[2] /\ c[2] <= bottom
               /\ \E c \in subject : c[1] = box.x
               /\ \E c \in subject : c[1] = right
               /\ \E c \in subject : c[2] = box.y
               /\ \E c \in subject : c[2] = bottom
               /\ RatLeq(Rat(box.width, mask.width), canvas.analysis.objectRatio)
               /\ RatLeq(Rat(box.height, mask.height), canvas.analysis.objectRatio)
               /\ \/ RatEq(canvas.analysis.objectRatio, Rat(box.width, mask.width))
                  \/ RatEq(canvas.analysis.objectRatio, Rat(box.height, mask.height))

\* A 3 x 3 mask whose subject is the two pixels (1, 0) and (2, 1).
C30_Witness ==
  /\ canvas.pc = "scale"
  /\ canvas.mask.width = 3
  /\ canvas.mask.height = 3
  /\ SubjectCoordinates(canvas.mask) = { <<1, 0>>, <<2, 1>> }
  /\ canvas.analysis.bbox = [x |-> 1, y |-> 0, width |-> 2, height |-> 2]

----------------------------------------------------------------------------
(* Properties of the log's consistency (checked under SpecVerdict, Spec    *)
(* and SpecBatch)                                                          *)

\* C31: in the log validateEdit returns, qa_status is 'pass' exactly when
\* the ssim_score of the same log, in thousandths, is at least 920.
C31_VerdictMatchesRecordedScore ==
  (q.pc = "returned" /\ q.thrown = "") =>
    LET out == q.result.forensic_log.qa_output
    IN  (out.qa_status = "pass") <=> (~out.ssim_score.nan /\ out.ssim_score.v >= 920)

\* C32: when a run succeeds after a validation that itself succeeded, the
\* edited_hash of its log is the digest of the bytes stored at edited_path.
C32_HashAnchorsDeliveredImage ==
  (Returned /\ result.success /\ ~SkipsQA(options) /\ loc.qaResult.success) =>
    \A f \in files :
      f.path = result.edited_path =>
        result.forensic_log.edited_hash = sha256(f.data)

\* C33: in every forensic log a processImage run holds, vinted_safe is
\* true only for qa_status 'pass' or 'skipped', subject_integrity is
\* 'preserved' exactly when qa_status is not 'fail', and qa_status 'fail'
\* comes with vinted_safe false.
C33_LogFlagsAgree ==
  loc.qaResult # <<>> =>
    LET log == loc.qaResult.forensic_log
        out == log.qa_output
    IN  /\ log.vinted_safe => out.qa_status \in {"pass", "skipped"}
        /\ (out.subject_integrity = "preserved") <=> (out.qa_status # "fail")
        /\ out.qa_status = "fail" => ~log.vinted_safe
        /\ out.qa_status \in {"pass", "fail", "skipped"}

\* A run whose validation ran through and failed the image on its score.
C33_Witness ==
  /\ Returned
  /\ loc.qaResult # <<>>
  /\ ~SkipsQA(options)
  /\ loc.qaResult.success
  /\ loc.qaResult.forensic_log.qa_output.qa_status = "fail"
  /\ loc.qaResult.forensic_log.qa_output.subject_integrity = "modified"
  /\ ~loc.qaResult.forensic_log.vinted_safe

\* C34: when processBatch has returned, results has one entry per input and
\* entry k is the result of the run started for input k and names that
\* input's file.
C34_ResultsInInputOrder ==
  batch.pc = "returned" =>
    /\ Len(batch.results) = Len(batch.inputs)
    /\ \A k \in 1..Len(batch.inputs) :
         /\ batch.runs[k].pc = "returned"
         /\ batch.results[k] = batch.runs[k].result
         /\ batch.results[k].original_path = batch.inputs[k].image_name

\* Three inputs in chunks of two, returned with a failure in second place.
C34_Witness ==
  /\ batch.pc = "returned"
  /\ Len(batch.inputs) = 3
  /\ batch.concurrency = 2
  /\ batch.results[1].success
  /\ ~batch.results[2].success
  /\ batch.results[3].success

\* C35: every processBatch call comes to an end, by returning its results
\* or by rejecting.
C35_BatchTerminates == <>(batch.pc \in {"returned", "rejected"})

----------------------------------------------------------------------------
(* Properties of the outpainting canvas (checked under SpecCanvas)          *)

\* C36: the canvas handed to the outpainting call, after the limit, the
\* extension and the 2:3 adjustment, has no side above
\* MAX_OUTPAINT_DIMENSION.
C36_CanvasWithinLimit ==
  canvas.pc = "done" =>
    /\ canvas.newWidth <= MAX_OUTPAINT_DIMENSION
    /\ canvas.newHeight <= MAX_OUTPAINT_DIMENSION

----------------------------------------------------------------------------
(* Properties of processBatch's use of Stage 3 (checked under SpecBatch)    *)

\* C37: every successful result processBatch returns went through
\* validateEdit: its log's qa_status is 'pass' or 'fail', never 'skipped',
\* and it names the forensic log file that was written.
C37_BatchNeverSkipsQA ==
  batch.pc = "returned" =>
    \A k \in 1..Len(batch.results) :
      batch.results[k].success =>
        /\ batch.results[k].forensic_log.qa_output.qa_status \in {"pass", "fail"}
        /\ batch.results[k].forensic_path # <<>>
        /\ Written(batch.results[k].forensic_path)

C37_Witness ==
  /\ batch.pc = "returned"
  /\ Len(batch.results) >= 2
  /\ \E k \in 1..Len(batch.results) :
       /\ batch.results[k].success
       /\ batch.results[k].forensic_log.qa_output.qa_status = "pass"
       /\ Written(batch.results[k].forensic_path)
  /\ \E k \in 1..Len(batch.results) : ~batch.results[k].success

----------------------------------------------------------------------------
(* Properties of the smart-prompt fallback (checked under Spec)             *)

\* The inpaint or outpaint call of Stage 2 failed.
ImageCallFailed == loc.remoteFailed \cap {"inpaint", "outpaint"} # {}

\* Stage 2 succeeded although the smart-prompt call failed: the prompt it
\* reports, and the one in the log of a successful run, is DEFAULT_PROMPT.
DefaultPromptReported ==
  /\ (/\ loc.inpaintResult # <<>>
      /\ loc.inpaintResult.success
      /\ "prompt" \in loc.remoteFailed)
       => loc.inpaintResult.smart_prompt = DEFAULT_PROMPT
  /\ (Returned /\ result.success /\ "prompt" \in loc.remoteFailed)
       => result.forensic_log.agent2_output.smart_prompt = DEFAULT_PROMPT

============================================================================
